---- MODULE Spec2Model ----
(***************************************************************************)
(* Verification model of the direct-API checkout bot.                      *)
(*                                                                         *)
(*  Spec      one FastCheckout session driven through run() or             *)
(*            runFromPreCheckout() (src/fast-checkout.js).  One action per *)
(*            awaited request; the synchronous code that follows a request *)
(*            up to the next await belongs to the same action.             *)
(*  FleetSpec FleetRunner.launch/_runSingleBot/stop (src/fleet-runner.js)  *)
(*            with every bot's run() followed at the granularity of the    *)
(*            step methods run() calls.                                    *)
(*  TaskSpec  TaskRunner.runMulti/runPreWarmed/stop (src/task-runner.js).  *)
(*  PoolSpec  SmartProxyManager (src/http-engine.js).                      *)
(*  JarSpec   CookieJar update/get/clear, header text parsed character by  *)
(*            character.                                                   *)
(*  WarmSpec  successive FastCheckout.preCheckout calls on one jar.        *)
(*  FcSpec    FastCheckout.request with its HTTP/2 fallback, and           *)
(*            restoreSession.                                              *)
(*  JigSpec   AddressJigger.jig and FastCheckout.jigAddress on strings of  *)
(*            characters.                                                  *)
(*  VariantSpec  FastCheckout.resolveVariant, one action per request.      *)
(*  QueueSpec    FastCheckout.handleQueueIfPresent.                        *)
(*  RaceSpec     the backup sessions of handleQueueIfPresent and the jar   *)
(*               each of their requests uses.                              *)
(*  EngineSpec   the HTTP/2 sessions of one HttpEngine                     *)
(*               (src/http-engine.js).                                     *)
(*  AssignSpec   the proxy each task of a launch is bound to               *)
(*               (FleetRunner.launch, TaskRunner.runMulti).                *)
(*  AddressSpec  the shipping address one run sends on its GraphQL and on  *)
(*               its form-based path.                                      *)
(*  MonitorSpec  StockMonitor start/stop with overlapping polls            *)
(*               (src/stock-monitor.js).                                   *)
(*  HarvesterSpec  the CaptchaHarvester token bank                         *)
(*               (src/unnamed/part_000).                                   *)
(*                                                                         *)
(* Every specification moves the variables of its own component and keeps  *)
(* the others at their idle values.                                        *)
(*                                                                         *)
(* Abstractions.  Strings that the code only tests with includes()/regex   *)
(* are represented by the outcome of that test.  An auth token is          *)
(* represented by the number of state-mutating submissions the session had *)
(* sent when the page it was extracted from was fetched (NoToken = null).  *)
(* paymentGatewayId, cookies, user-agent and log text do not influence the *)
(* control flow of run() and are left out of Spec.  The requests that     *)
(* handleQueueIfPresent adds to a checkout-page load mutate nothing on the *)
(* server; the page-load actions cover them by letting the body that       *)
(* reaches extractAuthToken contain a token or not.                        *)
(***************************************************************************)
EXTENDS Integers, Sequences, FiniteSets, TLC

VARIABLES
  cfg,        \* the config run() was called with
  pc,         \* position of the run: the request it awaits next
  authToken,  \* this.authToken
  sent,       \* state-mutating POSTs issued so far, oldest first
  result,     \* the object run() resolved to
  obs,        \* history of what the server answered (observation only)
  running,    \* FleetRunner.running
  users,      \* opts.users of the launch
  fleetDry,   \* opts.dryRun of the launch
  bots,       \* FleetRunner.bots : botId -> bot
  fleetPc,    \* position of launch()
  fleetResult,\* the object launch() resolved to
  runner,     \* a TaskRunner: winnerFound, running, tasks and its promises
  proxyManager, \* a SmartProxyManager: proxies, and the clock it reads
  jar,        \* a CookieJar and the preCheckout() calls that fill it
  fc,         \* the FastCheckout fields serializeSession() saves, and its engine
  jigger,     \* an address, a task index and what the jigging functions return
  variant,    \* one resolveVariant() call
  queue,      \* one handleQueueIfPresent() call
  engine,     \* an HttpEngine: h2Sessions and the connections it opened
  race,       \* the backup sessions of one queue race and the jars they use
  assign,     \* the proxies a launch binds to its tasks
  monitor,    \* a StockMonitor and the polls it has in flight
  harvester   \* a CaptchaHarvester: its token bank and solver windows

sessVars  == <<cfg, pc, authToken, sent, result, obs>>
fleetVars == <<running, users, fleetDry, bots, fleetPc, fleetResult>>
vars      == <<cfg, pc, authToken, sent, result, obs,
               running, users, fleetDry, bots, fleetPc, fleetResult,
               runner, proxyManager, jar, fc, jigger, variant, queue,
               engine, race, assign, monitor, harvester>>

\* what the actions of one component leave alone
exceptSession == <<fleetVars, runner, proxyManager, jar, fc, jigger, variant, queue,
               engine, race, assign, monitor, harvester>>
exceptFleet   == <<sessVars, runner, proxyManager, jar, fc, jigger, variant, queue,
               engine, race, assign, monitor, harvester>>
exceptRunner  == <<sessVars, fleetVars, proxyManager, jar, fc, jigger, variant, queue,
               engine, race, assign, monitor, harvester>>
exceptProxyManager == <<sessVars, fleetVars, runner, jar, fc, jigger, variant, queue,
               engine, race, assign, monitor, harvester>>
exceptJar     == <<sessVars, fleetVars, runner, proxyManager, fc, jigger, variant, queue,
               engine, race, assign, monitor, harvester>>
exceptFc      == <<sessVars, fleetVars, runner, proxyManager, jar, jigger, variant, queue,
               engine, race, assign, monitor, harvester>>
exceptJigger  == <<sessVars, fleetVars, runner, proxyManager, jar, fc, variant, queue,
               engine, race, assign, monitor, harvester>>
exceptVariant == <<sessVars, fleetVars, runner, proxyManager, jar, fc, jigger, queue,
               engine, race, assign, monitor, harvester>>
exceptQueue   == <<sessVars, fleetVars, runner, proxyManager, jar, fc, jigger, variant,
               engine, race, assign, monitor, harvester>>
exceptEngine  == <<sessVars, fleetVars, runner, proxyManager, jar, fc, jigger, variant,
               queue, race, assign, monitor, harvester>>
exceptRace    == <<sessVars, fleetVars, runner, proxyManager, jar, fc, jigger, variant,
               queue, engine, assign, monitor, harvester>>
exceptAssign  == <<sessVars, fleetVars, runner, proxyManager, jar, fc, jigger, variant,
               queue, engine, race, monitor, harvester>>
exceptMonitor == <<sessVars, fleetVars, runner, proxyManager, jar, fc, jigger, variant,
               queue, engine, race, assign, harvester>>
exceptHarvester == <<sessVars, fleetVars, runner, proxyManager, jar, fc, jigger, variant,
               queue, engine, race, assign, monitor>>

\* a component that no call has been made on
NotInUse == [pc |-> "idle"]
RunnerIdle       == runner = NotInUse
ProxyManagerIdle == proxyManager = NotInUse
JarIdle          == jar = NotInUse
FcIdle           == fc = NotInUse
JiggerIdle       == jigger = NotInUse
VariantIdle      == variant = NotInUse
QueueIdle        == queue = NotInUse
EngineIdle       == engine = NotInUse
RaceIdle         == race = NotInUse
OthersIdle       == assign = NotInUse /\ monitor = NotInUse /\ harvester = NotInUse

----------------------------------------------------------------------------
(* Values *)

NoToken == -1

\* a token put back by restoreSession before the run (older than any page)
RestoredToken == -2

NoResult == [done |-> FALSE, success |-> FALSE, step |-> "", dryRun |-> FALSE, error |-> FALSE,
             elapsed |-> FALSE]

\* { success: false, step, logs }
StepFailure(step) ==
  [done |-> TRUE, success |-> FALSE, step |-> step, dryRun |-> FALSE, error |-> FALSE,
   elapsed |-> FALSE]

\* { success: true, step: "complete", dryRun, elapsed, mode, logs }
Complete(dry) ==
  [done |-> TRUE, success |-> TRUE, step |-> "complete", dryRun |-> dry, error |-> FALSE,
   elapsed |-> TRUE]

\* catch (err) { return { success: false, error: err.message, logs } }
RunCatch ==
  [done |-> TRUE, success |-> FALSE, step |-> "", dryRun |-> FALSE, error |-> TRUE,
   elapsed |-> FALSE]

NoObs == [confirmSeen |-> FALSE, shipRejected |-> FALSE, reachedPayment |-> FALSE,
          noTokenAfterRetry |-> FALSE, threw |-> FALSE, payAnswered |-> FALSE,
          tokenized |-> FALSE, harvested |-> FALSE, ratesFound |-> FALSE,
          noSession |-> FALSE, checkoutUrl |-> ""]

\* outcome of fetching a page and running extractAuthToken on its body
PageOutcome == {"throw", "token", "none"}

\* the response to a payment POST, reduced to what the code inspects
PayStatus   == {200, 302, 422}
PayLocation == {"none", "thank_you", "orders", "processing", "other"}
PayResponse == [status : PayStatus, loc : PayLocation, body : BOOLEAN, pollAt : {0, 1}]

ProcessingPolls == 10

\* number of submissions sent = generation of the page a fetch returns now
Generation == Len(sent)

\* extractAuthToken on the body of a fetched page
extractAuthToken(outcome) == IF outcome = "token" THEN Generation ELSE NoToken

Submission(kind, via) == [kind |-> kind, via |-> via, token |-> authToken]

----------------------------------------------------------------------------
(* FastCheckout: the checks the step methods make *)

\* the dry-run test left out: submitPayment goes on to the POST
submitPayment_dryRun_ignored(dry) == FALSE

\* submitPayment: if (dryRun) { log; return true }
submitPayment_dryRun(dry) == dry

\* graphqlCheckout step 4: if (dryRun) return { success: true, dryRun: true, ... }
graphqlCheckout_dryRun(dry) == dry

\* the token test left out: the form is built with whatever authToken holds
submitPayment_hasToken_always(tok) == TRUE

\* submitPayment: if (!this.authToken) { log FATAL; return false }
submitPayment_hasToken(tok) == tok # NoToken

\* graphqlCheckout: if (!this.authToken) { log; return null }
graphqlCheckout_hasToken(tok) == tok # NoToken

\* submitShippingAddress: if (location || res.ok || res.status === 302)
ShippingAccepted(r) == r.loc \/ r.status = 200 \/ r.status = 302

ShipResponse == [status : {200, 302, 422}, loc : BOOLEAN]

\* submitPayment, the processing loop: up to 10 polls of the processing page
PollProcessing(pollAt) == pollAt \in 1..ProcessingPolls

\* submitPayment: the decision taken on the response to the payment POST
PaymentAccepted(r) ==
  IF r.loc \in {"thank_you", "orders", "processing"} THEN TRUE
  ELSE IF r.loc = "processing" THEN PollProcessing(r.pollAt)
  ELSE IF r.status = 200 \/ r.status = 302 THEN TRUE
  ELSE r.body

\* graphqlCheckout: the decision taken on the response to the payment POST
GraphqlPaymentAccepted(r) ==
  IF r.loc \in {"thank_you", "orders", "processing"} THEN TRUE
  ELSE r.status = 200 \/ r.status = 302

\* what the server showed: confirmation markers in the redirect location, in a
\* poll of the processing page, or in the body
MarkersObserved(r) ==
  \/ r.loc \in {"thank_you", "orders"}
  \/ r.loc = "processing" /\ r.pollAt \in 1..ProcessingPolls
  \/ r.body

----------------------------------------------------------------------------
(* FastCheckout.run / runFromPreCheckout : shared pieces *)

\* an exception that leaves the try block of run()/runFromPreCheckout()
Thrown ==
  /\ pc' = "done"
  /\ result' = RunCatch
  /\ obs' = [obs EXCEPT !.threw = TRUE]

\* the test on the details left out: the run goes to rate selection at once
AfterCheckoutPage_skipsShipping == "rate_page"

\* the checkout page has been loaded: shipping comes next when there are
\* details (Object.keys(jiggedDetails).length > 0), else rate selection
AfterCheckoutPage == IF cfg.hasDetails THEN "ship_post" ELSE "rate_page"

\* control enters submitPayment(currentUrl, paymentDetails, dryRun)
EnterSubmitPayment ==
  /\ obs' = [obs EXCEPT !.reachedPayment = TRUE]
  /\ IF submitPayment_dryRun(cfg.dryRun)
       THEN pc' = "done" /\ result' = Complete(cfg.dryRun)
       ELSE pc' = "pay_tokenize" /\ result' = result

\* graphqlCheckout returned null or a result without success: REST flow
FallBackToRest == pc' = "direct1"

----------------------------------------------------------------------------
(* resolveVariant *)

resolveVariant ==
  /\ pc = "resolve"
  /\ \E found \in BOOLEAN :
       IF found
         THEN /\ pc' = IF cfg.entry = "run" THEN "gql_home" ELSE "direct1"
              /\ result' = result
         ELSE /\ pc' = "done"
              /\ result' = StepFailure("resolve-variant")
  /\ UNCHANGED <<cfg, authToken, sent, obs>>
  /\ UNCHANGED exceptSession

----------------------------------------------------------------------------
(* graphqlCheckout *)

\* step 1: load the store page and look for the Storefront API token
graphqlCheckout_home ==
  /\ pc = "gql_home"
  /\ \E r \in {"throw", "notoken", "token"} :
       IF r = "token" THEN pc' = "gql_create" ELSE FallBackToRest
  /\ UNCHANGED <<cfg, authToken, sent, result, obs>>
  /\ UNCHANGED exceptSession

\* step 2/4: checkoutCreate mutation; with no rates offered step 3 is skipped
graphqlCheckout_afterRates ==
  /\ obs' = [obs EXCEPT !.reachedPayment = TRUE]
  /\ IF graphqlCheckout_dryRun(cfg.dryRun)
       THEN pc' = "done" /\ result' = Complete(cfg.dryRun)
       ELSE pc' = "gql_tokenize" /\ result' = result

graphqlCheckout_create ==
  /\ pc = "gql_create"
  /\ \E r \in {"throw", "errors", "noid", "rates", "norates"} :
       CASE r = "rates"   -> pc' = "gql_rate" /\ UNCHANGED <<result, obs>>
         [] r = "norates" -> graphqlCheckout_afterRates
         [] OTHER         -> FallBackToRest /\ UNCHANGED <<result, obs>>
  /\ UNCHANGED <<cfg, authToken, sent>>
  /\ UNCHANGED exceptSession

\* step 3: checkoutShippingLineUpdate mutation
graphqlCheckout_rate ==
  /\ pc = "gql_rate"
  /\ \E r \in {"throw", "ok"} :
       IF r = "ok" THEN graphqlCheckout_afterRates
                   ELSE FallBackToRest /\ UNCHANGED <<result, obs>>
  /\ UNCHANGED <<cfg, authToken, sent>>
  /\ UNCHANGED exceptSession

\* this.prePaymentToken || await this.getPaymentSessionToken(paymentDetails)
graphqlCheckout_tokenize ==
  /\ pc = "gql_tokenize"
  /\ \E ok \in BOOLEAN : IF ok THEN pc' = "gql_page" ELSE FallBackToRest
  /\ obs' = [obs EXCEPT !.tokenized = TRUE]
  /\ UNCHANGED <<cfg, authToken, sent, result>>
  /\ UNCHANGED exceptSession

\* load checkout.webUrl; this.authToken = this.extractAuthToken(pageBody)
graphqlCheckout_page ==
  /\ pc = "gql_page"
  /\ \E r \in PageOutcome :
       IF r = "throw"
         THEN FallBackToRest /\ authToken' = authToken
         ELSE /\ authToken' = extractAuthToken(r)
              /\ pc' = IF authToken' = NoToken THEN "gql_paystep" ELSE "gql_pay"
  /\ obs' = [obs EXCEPT !.harvested = TRUE]
  /\ UNCHANGED <<cfg, sent, result>>
  /\ UNCHANGED exceptSession

\* no token on first load: try the payment step URL, then give up
graphqlCheckout_payStep ==
  /\ pc = "gql_paystep"
  /\ \E r \in PageOutcome :
       /\ authToken' = IF r = "token" THEN extractAuthToken(r) ELSE authToken
       /\ IF graphqlCheckout_hasToken(authToken') THEN pc' = "gql_pay" ELSE FallBackToRest
  /\ UNCHANGED <<cfg, sent, result, obs>>
  /\ UNCHANGED exceptSession

\* the payment POST of the GraphQL path (complete=1)
graphqlCheckout_pay ==
  /\ pc = "gql_pay"
  /\ sent' = Append(sent, Submission("payment", "graphql"))
  /\ \E thrown \in BOOLEAN : \E r \in PayResponse :
       IF thrown
         THEN FallBackToRest /\ UNCHANGED <<result, obs>>
         ELSE /\ obs' = [obs EXCEPT !.confirmSeen = @ \/ MarkersObserved(r),
                                    !.payAnswered = TRUE]
              /\ IF GraphqlPaymentAccepted(r)
                   THEN pc' = "done" /\ result' = Complete(cfg.dryRun)
                   ELSE FallBackToRest /\ result' = result
  /\ UNCHANGED <<cfg, authToken>>
  /\ UNCHANGED exceptSession

----------------------------------------------------------------------------
(* directCheckout, addToCart, createCheckout *)

\* GET /cart/VARIANT:QTY ; a redirect to a checkout path is the fast path
directCheckout_link ==
  /\ pc = "direct1"
  /\ \E r \in {"throw", "checkout", "other"} :
       CASE r = "throw"    -> Thrown
         [] r = "checkout" -> pc' = "page" /\ UNCHANGED <<result, obs>>
         [] r = "other"    -> pc' = "direct2" /\ UNCHANGED <<result, obs>>
  /\ UNCHANGED <<cfg, authToken, sent>>
  /\ UNCHANGED exceptSession

\* GET /checkout?line_items[0][variant_id]=... ; null sends run() to the cart
directCheckout_param ==
  /\ pc = "direct2"
  /\ \E r \in {"throw", "checkout", "other"} :
       CASE r = "throw"    -> Thrown
         [] r = "checkout" -> pc' = "page" /\ UNCHANGED <<result, obs>>
         [] r = "other"    -> pc' = "cart_clear" /\ UNCHANGED <<result, obs>>
  /\ UNCHANGED <<cfg, authToken, sent>>
  /\ UNCHANGED exceptSession

\* run(): load the checkout page of the direct link and take its token
run_checkoutPage ==
  /\ pc = "page"
  /\ \E r \in PageOutcome :
       IF r = "throw"
         THEN Thrown /\ authToken' = authToken
         ELSE /\ authToken' = extractAuthToken(r)
              /\ pc' = AfterCheckoutPage
              /\ UNCHANGED <<result, obs>>
  /\ UNCHANGED <<cfg, sent>>
  /\ UNCHANGED exceptSession

\* POST /cart/clear.js, errors swallowed by .catch(() => {})
addToCart_clear ==
  /\ pc = "cart_clear"
  /\ pc' = "cart_add"
  /\ UNCHANGED <<cfg, authToken, sent, result, obs>>
  /\ UNCHANGED exceptSession

\* POST /cart/add.js as JSON
addToCart_json ==
  /\ pc = "cart_add"
  /\ \E r \in {"throw", "ok", "rejected"} :
       CASE r = "throw"    -> Thrown
         [] r = "ok"       -> pc' = "create_post" /\ UNCHANGED <<result, obs>>
         [] r = "rejected" -> pc' = "cart_add_form" /\ UNCHANGED <<result, obs>>
  /\ UNCHANGED <<cfg, authToken, sent>>
  /\ UNCHANGED exceptSession

\* POST /cart/add.js form-encoded; false ends the run at "add-to-cart"
addToCart_form ==
  /\ pc = "cart_add_form"
  /\ \E r \in {"throw", "ok", "rejected"} :
       CASE r = "throw"    -> Thrown
         [] r = "ok"       -> pc' = "create_post" /\ UNCHANGED <<result, obs>>
         [] r = "rejected" -> /\ pc' = "done"
                              /\ result' = StepFailure("add-to-cart")
                              /\ obs' = obs
  /\ UNCHANGED <<cfg, authToken, sent>>
  /\ UNCHANGED exceptSession

\* POST /checkout
createCheckout_post ==
  /\ pc = "create_post"
  /\ \E r \in {"throw", "location", "nolocation"} :
       CASE r = "throw"      -> Thrown
         [] r = "location"   -> /\ pc' = "create_page"
                                /\ obs' = [obs EXCEPT !.checkoutUrl = "location"]
                                /\ result' = result
         [] r = "nolocation" -> pc' = "create_get" /\ UNCHANGED <<result, obs>>
  /\ UNCHANGED <<cfg, authToken, sent>>
  /\ UNCHANGED exceptSession

\* the checkout URL made from the answer to GET /checkout: the redirect
\* location, else the token matched in the body, else `${baseUrl}/checkout`
createCheckout_url(answer) ==
  CASE answer = "location" -> "location"
    [] answer = "token"    -> "checkout/token"
    [] OTHER               -> "checkout"

\* run(): if (!checkoutUrl) return { success: false, step: "create-checkout" }
run_noCheckoutUrl(checkoutUrl) == checkoutUrl = ""

\* GET /checkout ; whatever it answers, a checkout URL is made up from it
createCheckout_get ==
  /\ pc = "create_get"
  /\ \E r \in {"throw", "location", "token", "neither"} :
       IF r = "throw" THEN Thrown
       ELSE /\ obs' = [obs EXCEPT !.noSession = (r = "neither"),
                                  !.checkoutUrl = createCheckout_url(r)]
            /\ pc' = "create_page"
            /\ result' = result
  /\ UNCHANGED <<cfg, authToken, sent>>
  /\ UNCHANGED exceptSession

\* load the checkout page; this.authToken = this.extractAuthToken(pageBody);
\* return checkoutUrl; and in run(): if (!checkoutUrl) return { ... }
createCheckout_page ==
  /\ pc = "create_page"
  /\ \E r \in PageOutcome :
       IF r = "throw"
         THEN Thrown /\ authToken' = authToken
         ELSE /\ authToken' = extractAuthToken(r)
              /\ IF run_noCheckoutUrl(obs.checkoutUrl)
                   THEN pc' = "done" /\ result' = StepFailure("create-checkout")
                   ELSE pc' = AfterCheckoutPage /\ result' = result
              /\ obs' = obs
  /\ UNCHANGED <<cfg, sent>>
  /\ UNCHANGED exceptSession

----------------------------------------------------------------------------
(* submitShippingAddress *)

\* the shipping POST; a rejected one is logged and the old URL returned
submitShippingAddress_post ==
  /\ pc = "ship_post"
  /\ sent' = Append(sent, Submission("shipping", "rest"))
  /\ \E thrown \in BOOLEAN : \E r \in ShipResponse :
       IF thrown THEN Thrown
       ELSE IF ShippingAccepted(r)
         THEN pc' = "ship_follow" /\ UNCHANGED <<result, obs>>
         ELSE /\ pc' = "rate_page"
              /\ obs' = [obs EXCEPT !.shipRejected = TRUE]
              /\ result' = result
  /\ UNCHANGED <<cfg, authToken>>
  /\ UNCHANGED exceptSession

\* re-fetch the resulting page; if (newAuth) this.authToken = newAuth
submitShippingAddress_follow ==
  /\ pc = "ship_follow"
  /\ \E r \in PageOutcome :
       authToken' = IF r = "token" THEN extractAuthToken(r) ELSE authToken
  /\ pc' = "rate_page"
  /\ UNCHANGED <<cfg, sent, result, obs>>
  /\ UNCHANGED exceptSession

----------------------------------------------------------------------------
(* selectShippingRate *)

\* GET ?step=shipping_method ; token re-extracted, rates scraped
selectShippingRate_page ==
  /\ pc = "rate_page"
  /\ \E r \in PageOutcome : \E rates \in BOOLEAN :
       IF r = "throw"
         THEN Thrown /\ authToken' = authToken
         ELSE /\ authToken' = IF r = "token" THEN extractAuthToken(r) ELSE authToken
              /\ pc' = IF rates THEN "rate_post" ELSE "rate_api"
              /\ obs' = [obs EXCEPT !.ratesFound = rates]
              /\ result' = result
  /\ UNCHANGED <<cfg, sent>>
  /\ UNCHANGED exceptSession

\* GET /shipping_rates.json ; errors swallowed; no rate, no rate POST
selectShippingRate_api ==
  /\ pc = "rate_api"
  /\ \E r \in {"throw", "rates", "norates"} :
       IF r = "rates"
         THEN /\ pc' = "rate_post"
              /\ obs' = [obs EXCEPT !.ratesFound = TRUE]
              /\ result' = result
         ELSE EnterSubmitPayment
  /\ UNCHANGED <<cfg, authToken, sent>>
  /\ UNCHANGED exceptSession

\* the rate POST
selectShippingRate_post ==
  /\ pc = "rate_post"
  /\ sent' = Append(sent, Submission("rate", "rest"))
  /\ \E thrown \in BOOLEAN :
       IF thrown THEN Thrown
       ELSE pc' = "rate_follow" /\ UNCHANGED <<result, obs>>
  /\ UNCHANGED <<cfg, authToken>>
  /\ UNCHANGED exceptSession

\* load the payment page; if (payAuth) this.authToken = payAuth
selectShippingRate_follow ==
  /\ pc = "rate_follow"
  /\ \E r \in PageOutcome :
       authToken' = IF r = "token" THEN extractAuthToken(r) ELSE authToken
  /\ EnterSubmitPayment
  /\ UNCHANGED <<cfg, sent>>
  /\ UNCHANGED exceptSession

----------------------------------------------------------------------------
(* submitPayment (live mode; the dry-run return is in EnterSubmitPayment) *)

\* step 1: tokenization; a failure falls back to direct card fields
submitPayment_tokenize ==
  /\ pc = "pay_tokenize"
  /\ \E ok \in BOOLEAN : pc' = "pay_page"
  /\ obs' = [obs EXCEPT !.tokenized = TRUE]
  /\ UNCHANGED <<cfg, authToken, sent, result>>
  /\ UNCHANGED exceptSession

\* the check in front of step 3: without a token the POST is not built
submitPayment_guard(tok) ==
  IF submitPayment_hasToken(tok)
    THEN pc' = "pay_post" /\ result' = result
    ELSE pc' = "done" /\ result' = StepFailure("payment")

\* step 2: load ?step=payment_method ; if (freshAuth) this.authToken = freshAuth
submitPayment_page ==
  /\ pc = "pay_page"
  /\ \E r \in PageOutcome :
       authToken' = IF r = "token" THEN extractAuthToken(r) ELSE authToken
  /\ IF authToken' = NoToken
       THEN pc' = "pay_retry" /\ result' = result
       ELSE submitPayment_guard(authToken')
  /\ obs' = [obs EXCEPT !.harvested = TRUE]
  /\ UNCHANGED <<cfg, sent>>
  /\ UNCHANGED exceptSession

\* step 2b: token still missing, retry from the checkout URL
submitPayment_retry ==
  /\ pc = "pay_retry"
  /\ \E r \in PageOutcome :
       authToken' = IF r = "token" THEN extractAuthToken(r) ELSE authToken
  /\ obs' = [obs EXCEPT !.noTokenAfterRetry = (authToken' = NoToken)]
  /\ submitPayment_guard(authToken')
  /\ UNCHANGED <<cfg, sent>>
  /\ UNCHANGED exceptSession

\* step 3: the payment POST (complete=1) and the reading of its response
submitPayment_post ==
  /\ pc = "pay_post"
  /\ sent' = Append(sent, Submission("payment", "rest"))
  /\ \E thrown \in BOOLEAN : \E r \in PayResponse :
       IF thrown THEN Thrown
       ELSE /\ obs' = [obs EXCEPT !.confirmSeen = @ \/ MarkersObserved(r),
                                  !.payAnswered = TRUE]
            /\ pc' = "done"
            /\ result' = IF PaymentAccepted(r) THEN Complete(cfg.dryRun)
                                               ELSE StepFailure("payment")
  /\ UNCHANGED <<cfg, authToken>>
  /\ UNCHANGED exceptSession

----------------------------------------------------------------------------
(* entry of run() and runFromPreCheckout() *)

\* getBaseUrl(url): new URL(url) throws on a string that is not a URL
getBaseUrl_throws(urlValid) == ~urlValid

\* run(): this.authToken = null; this.paymentGatewayId = null; getBaseUrl;
\* then the try.  An exception in front of the try rejects the promise.
run ==
  /\ pc = "begin"
  /\ cfg.entry = "run"
  /\ authToken' = NoToken
  /\ pc' = IF getBaseUrl_throws(cfg.urlValid) THEN "rejected" ELSE "resolve"
  /\ UNCHANGED <<cfg, sent, result, obs>>
  /\ UNCHANGED exceptSession

\* runFromPreCheckout(): the session is used as it is;
\* this.baseUrl || this.getBaseUrl(storeUrl || productUrl), then the try
runFromPreCheckout ==
  /\ pc = "begin"
  /\ cfg.entry = "runFromPreCheckout"
  /\ \E baseUrl \in BOOLEAN :
       pc' = IF ~baseUrl /\ getBaseUrl_throws(cfg.urlValid) THEN "rejected" ELSE "resolve"
  /\ UNCHANGED <<cfg, authToken, sent, result, obs>>
  /\ UNCHANGED exceptSession

Config == [entry : {"run", "runFromPreCheckout"}, dryRun : BOOLEAN, hasDetails : BOOLEAN,
           urlValid : BOOLEAN]

\* C19: on a session without warm state runFromPreCheckout attempts the
\* protocol paths run attempts: once the variant is resolved the attempt
\* goes on to the GraphQL checkout first, as run does, whichever of the two
\* entry points it was started through.
C19_WarmlessAttemptTakesRunsPath ==
  [][(pc = "resolve" /\ pc' \notin {"resolve", "done"}) => pc' = "gql_home"]_vars

NoFleetResult == [done |-> FALSE, successCount |-> 0, failCount |-> 0, summaries |-> <<>>]

FleetIdle ==
  /\ running = FALSE
  /\ users = <<>>
  /\ fleetDry = FALSE
  /\ bots = <<>>
  /\ fleetPc = "idle"
  /\ fleetResult = NoFleetResult

Init ==
  /\ cfg \in Config
  /\ pc = "begin"
  /\ authToken \in {NoToken, RestoredToken}
  /\ sent = <<>>
  /\ result = NoResult
  /\ obs = NoObs
  /\ FleetIdle
  /\ RunnerIdle /\ ProxyManagerIdle /\ JarIdle /\ FcIdle
  /\ JiggerIdle /\ VariantIdle /\ QueueIdle /\ EngineIdle /\ RaceIdle
  /\ OthersIdle

Next ==
  \/ run
  \/ runFromPreCheckout
  \/ resolveVariant
  \/ graphqlCheckout_home
  \/ graphqlCheckout_create
  \/ graphqlCheckout_rate
  \/ graphqlCheckout_tokenize
  \/ graphqlCheckout_page
  \/ graphqlCheckout_payStep
  \/ graphqlCheckout_pay
  \/ directCheckout_link
  \/ directCheckout_param
  \/ run_checkoutPage
  \/ addToCart_clear
  \/ addToCart_json
  \/ addToCart_form
  \/ createCheckout_post
  \/ createCheckout_get
  \/ createCheckout_page
  \/ submitShippingAddress_post
  \/ submitShippingAddress_follow
  \/ selectShippingRate_page
  \/ selectShippingRate_api
  \/ selectShippingRate_post
  \/ selectShippingRate_follow
  \/ submitPayment_tokenize
  \/ submitPayment_page
  \/ submitPayment_retry
  \/ submitPayment_post

Spec == Init /\ [][Next]_vars

----------------------------------------------------------------------------
(* Properties of one checkout run (checked under Spec) *)

PaymentPosts == {i \in 1..Len(sent) : sent[i].kind = "payment"}

\* C1: in live mode (dryRun=false) a run reports success:true only if
\* order-confirmation markers were observed in the answer to a payment POST
\* (redirect location, a poll of the processing page, or the body).
C1_LiveSuccessOnlyOnConfirmation ==
  (result.done /\ ~cfg.dryRun /\ result.success) => obs.confirmSeen

\* C2: a run whose shipping POST was answered with a non-success status and
\* no redirect ends with success:false and a step tag, in dry-run and live
\* mode alike.
C2_ShippingFailureNeverSucceeds ==
  (obs.shipRejected /\ result.done) => (~result.success /\ result.step # "")

\* C3: with dryRun=true no payment POST (complete=1) is ever issued, on the
\* form-based, the pre-warmed and the GraphQL path, and a dry-run that has
\* reached the payment step has returned success:true with dryRun:true.
C3_DryRunNeverPays ==
  cfg.dryRun =>
    /\ PaymentPosts = {}
    /\ obs.reachedPayment => (result = Complete(TRUE))

C3_Witness ==
  /\ cfg.dryRun
  /\ obs.reachedPayment
  /\ result.done /\ result.success /\ result.dryRun
  /\ Len(sent) = 2

C22_DryRunPreparesPaymentAsLiveRun ==
  (cfg.dryRun /\ result.done /\ result.success) =>
     (obs.tokenized /\ obs.harvested)

\* C23: run and runFromPreCheckout never reject, whatever the config and the
\* network do, and every result they resolve to carries the elapsed time
\* (next to success and the log transcript, which every result has).
C23_RunAlwaysResolvesWithElapsed ==
  /\ pc # "rejected"
  /\ result.done => result.elapsed

Posts(kind, via) ==
  {i \in 1..Len(sent) : sent[i].kind = kind /\ sent[i].via = via}

C30_NoSessionEndsAtCreateCheckout ==
  obs.noSession =>
    /\ Posts("shipping", "rest") = {}
    /\ (result.done /\ ~obs.threw) => result = StepFailure("create-checkout")

\* C34: one run issues the final payment POST at most once, the POST of the
\* GraphQL path and the POST of the form-based path counted together.
C34_PaymentPostedAtMostOnce == Cardinality(PaymentPosts) <= 1

\* C5: every state-mutating submission (shipping, rate, payment POST) carries
\* an auth token extracted from a page that was fetched after the previous
\* state-mutating submission of the session.
C5_EverySubmissionCarriesFreshToken ==
  \A i \in 1..Len(sent) : sent[i].token = i - 1

\* C6: every result with success:false returned by run or runFromPreCheckout
\* carries a step tag, the results produced by a thrown exception included.
C6_EveryFailureCarriesStep ==
  (result.done /\ ~result.success) => result.step # ""

----------------------------------------------------------------------------
(* FleetRunner *)

NumBots == 2

UserPool == {[id |-> "u1", name |-> "Ash"], [id |-> "u2", name |-> "Misty"]}

\* bot.result = { success: false, error: err.message, step: "fatal" }
Fatal ==
  [done |-> TRUE, success |-> FALSE, step |-> "fatal", dryRun |-> FALSE, error |-> TRUE]

\* bot.result = { success: false, error: "Fleet stopped" }
FleetStopped ==
  [done |-> TRUE, success |-> FALSE, step |-> "", dryRun |-> FALSE, error |-> TRUE]

\* this.bots.set(botId, { user, instance, state: QUEUED, result: null, ... })
\* pc is the position of the bot's _runSingleBot call, stopped is
\* instance.stopped; the remaining fields record history for the properties
NewBot(user, staggerMs) ==
  [user |-> user, state |-> "queued", result |-> NoResult, stopped |-> FALSE,
   pc |-> IF staggerMs > 0 THEN "stagger" ELSE "check",
   threw |-> FALSE, ranOk |-> FALSE, requested |-> FALSE,
   stopInStagger |-> FALSE, stopInFlight |-> FALSE,
   stepsAfterStop |-> 0, payAfterStop |-> FALSE]

InFlight(b) == b.pc \in {"resolve", "graphql", "checkout", "shipping", "rate", "payment"}

\* the running test left out: the bot starts whatever the flag says
runSingleBot_running_ignored(r) == TRUE

\* _runSingleBot: if (!this.running) { STOPPED; bot.result = ...; return }
runSingleBot_running(r) == r

\* _runSingleBot after the stagger: the running check, then the try block up
\* to the call of instance.run(config); toCheckoutConfig may throw
runSingleBot_start(b, isRunning, configThrows) ==
  IF ~runSingleBot_running(isRunning)
    THEN [b EXCEPT !.state = "stopped", !.result = FleetStopped, !.pc = "done"]
  ELSE IF configThrows
    THEN [b EXCEPT !.state = "failed", !.result = Fatal, !.pc = "done", !.threw = TRUE]
  ELSE [b EXCEPT !.state = "starting", !.pc = "resolve"]

\* a step method of run() has completed its requests; the log hook has set
\* the bot state named by the step's log lines
Advance(b, nextPc, st) ==
  [b EXCEPT !.pc = nextPc, !.state = st, !.requested = TRUE,
            !.stepsAfterStop = IF b.stopped /\ @ < 2 THEN @ + 1 ELSE @]

\* const result = await instance.run(config); bot.result = result; SUCCESS/FAILED
Finish(b, res) ==
  [b EXCEPT !.pc = "done", !.result = res, !.requested = TRUE,
            !.state = IF res.success THEN "success" ELSE "failed",
            !.ranOk = res.success,
            !.stepsAfterStop = IF b.stopped /\ @ < 2 THEN @ + 1 ELSE @]

\* an exception inside the try block of run(): run() resolves to RunCatch
RunThrew(b) == [Finish(b, RunCatch) EXCEPT !.threw = TRUE]

\* launch(): create all bots, start them; the bot with staggerMs = 0 runs
\* synchronously up to its first request
launch ==
  /\ fleetPc = "idle"
  /\ running' = TRUE
  /\ \E configThrows \in BOOLEAN :
       bots' = [i \in 1..Len(users) |->
                  IF i = 1
                    THEN runSingleBot_start(NewBot(users[i], 0), TRUE, configThrows)
                    ELSE NewBot(users[i], (i - 1) * 20)]
  /\ fleetPc' = "launched"
  /\ UNCHANGED <<users, fleetDry, fleetResult>>
  /\ UNCHANGED exceptFleet

\* _runSingleBot: the stagger timer of bot i fires
runSingleBot_stagger(i) ==
  /\ fleetPc = "launched"
  /\ bots[i].pc = "stagger"
  /\ \E configThrows \in BOOLEAN :
       bots' = [bots EXCEPT ![i] = runSingleBot_start(@, running, configThrows)]
  /\ UNCHANGED <<running, users, fleetDry, fleetPc, fleetResult>>
  /\ UNCHANGED exceptFleet

\* run() of bot i: resolveVariant
bot_resolveVariant(i) ==
  /\ fleetPc = "launched"
  /\ bots[i].pc = "resolve"
  /\ \E found \in BOOLEAN :
       bots' = [bots EXCEPT ![i] =
                  IF found THEN Advance(@, "graphql", "resolving")
                           ELSE Finish(@, StepFailure("resolve-variant"))]
  /\ UNCHANGED <<running, users, fleetDry, fleetPc, fleetResult>>
  /\ UNCHANGED exceptFleet

\* run() of bot i: graphqlCheckout; "paid" is the live path that issued the
\* payment POST and had it accepted, "declined" the one that had it refused
bot_graphqlCheckout(i) ==
  /\ fleetPc = "launched"
  /\ bots[i].pc = "graphql"
  /\ \E r \in {"null", "complete", "declined"} :
       /\ (r = "declined") => ~fleetDry
       /\ bots' = [bots EXCEPT ![i] =
            CASE r = "null"     -> Advance(@, "checkout", "checkout")
              [] r = "complete" ->
                   [Finish(@, Complete(fleetDry)) EXCEPT
                      !.payAfterStop = ~graphqlCheckout_dryRun(fleetDry) /\ bots[i].stepsAfterStop >= 1]
              [] r = "declined" ->
                   [Advance(@, "checkout", "checkout") EXCEPT
                      !.payAfterStop = bots[i].stepsAfterStop >= 1]]
  /\ UNCHANGED <<running, users, fleetDry, fleetPc, fleetResult>>
  /\ UNCHANGED exceptFleet

\* run() of bot i: directCheckout, else addToCart and createCheckout
bot_checkout(i) ==
  /\ fleetPc = "launched"
  /\ bots[i].pc = "checkout"
  /\ \E r \in {"ok", "cart-rejected", "throw"} :
       bots' = [bots EXCEPT ![i] =
            CASE r = "ok"            -> Advance(@, "shipping", "checkout")
              [] r = "cart-rejected" -> Finish(@, StepFailure("add-to-cart"))
              [] r = "throw"         -> RunThrew(@)]
  /\ UNCHANGED <<running, users, fleetDry, fleetPc, fleetResult>>
  /\ UNCHANGED exceptFleet

\* run() of bot i: submitShippingAddress
bot_submitShippingAddress(i) ==
  /\ fleetPc = "launched"
  /\ bots[i].pc = "shipping"
  /\ \E thrown \in BOOLEAN :
       bots' = [bots EXCEPT ![i] =
            IF thrown THEN RunThrew(@) ELSE Advance(@, "rate", "shipping")]
  /\ UNCHANGED <<running, users, fleetDry, fleetPc, fleetResult>>
  /\ UNCHANGED exceptFleet

\* run() of bot i: selectShippingRate, then the dry-run return of submitPayment
bot_selectShippingRate(i) ==
  /\ fleetPc = "launched"
  /\ bots[i].pc = "rate"
  /\ \E thrown \in BOOLEAN :
       bots' = [bots EXCEPT ![i] =
            IF thrown THEN RunThrew(@)
            ELSE IF submitPayment_dryRun(fleetDry)
              THEN Finish(@, Complete(fleetDry))
              ELSE Advance(@, "payment", "rate")]
  /\ UNCHANGED <<running, users, fleetDry, fleetPc, fleetResult>>
  /\ UNCHANGED exceptFleet

\* run() of bot i: submitPayment in live mode
bot_submitPayment(i) ==
  /\ fleetPc = "launched"
  /\ bots[i].pc = "payment"
  /\ \E r \in {"no-token", "accepted", "declined", "throw"} :
       bots' = [bots EXCEPT ![i] =
            CASE r = "no-token" -> Finish(@, StepFailure("payment"))
              [] r = "accepted" ->
                   [Finish(@, Complete(fleetDry)) EXCEPT !.payAfterStop = bots[i].stepsAfterStop >= 1]
              [] r = "declined" ->
                   [Finish(@, StepFailure("payment")) EXCEPT !.payAfterStop = bots[i].stepsAfterStop >= 1]
              [] r = "throw"    ->
                   [RunThrew(@) EXCEPT !.payAfterStop = bots[i].stepsAfterStop >= 1]]
  /\ UNCHANGED <<running, users, fleetDry, fleetPc, fleetResult>>
  /\ UNCHANGED exceptFleet

\* stop(): running = false; instance.stopped = true; state STOPPED unless
\* the bot state is SUCCESS or FAILED
stop ==
  /\ fleetPc = "launched"
  /\ running' = FALSE
  /\ bots' = [i \in DOMAIN bots |->
                [bots[i] EXCEPT
                   !.stopped = TRUE,
                   !.state = IF @ \notin {"success", "failed"} THEN "stopped" ELSE @,
                   !.stopInStagger = @ \/ bots[i].pc = "stagger",
                   !.stopInFlight = @ \/ InFlight(bots[i])]]
  /\ UNCHANGED <<users, fleetDry, fleetPc, fleetResult>>
  /\ UNCHANGED exceptFleet

\* the tally counting as failed only the bots whose state is "failed"
TallyBot_failedStateOnly(acc, i, bot) ==
  [acc EXCEPT
     !.successCount = IF bot.result.success THEN @ + 1 ELSE @,
     !.failCount    = IF bot.state = "failed" THEN @ + 1 ELSE @,
     !.summaries    = Append(@,
                        [botId |-> i, userId |-> bot.user.id, userName |-> bot.user.name,
                         success |-> bot.result.success, error |-> bot.result.error,
                         step |-> bot.result.step])]

\* launch(): one round of the tally loop, for (const [botId, bot] of this.bots)
TallyBot(acc, i, bot) ==
  [acc EXCEPT
     !.successCount = IF bot.result.success THEN @ + 1 ELSE @,
     !.failCount    = IF bot.result.success THEN @ ELSE @ + 1,
     !.summaries    = Append(@,
                        [botId |-> i, userId |-> bot.user.id, userName |-> bot.user.name,
                         success |-> bot.result.success, error |-> bot.result.error,
                         step |-> bot.result.step])]

RECURSIVE Tally(_, _)
Tally(acc, i) ==
  IF i > Len(bots) THEN acc ELSE Tally(TallyBot(acc, i, bots[i]), i + 1)

\* launch() after Promise.allSettled(botPromises): running = false, tally,
\* return { success, successCount, failCount, total, summaries, ... }
launch_complete ==
  /\ fleetPc = "launched"
  /\ \A i \in DOMAIN bots : bots[i].pc = "done"
  /\ running' = FALSE
  /\ fleetResult' =
       [Tally(NoFleetResult, 1) EXCEPT !.done = TRUE]
  /\ fleetPc' = "done"
  /\ UNCHANGED <<users, fleetDry, bots>>
  /\ UNCHANGED exceptFleet

SessionIdle ==
  /\ cfg = [entry |-> "run", dryRun |-> TRUE, hasDetails |-> FALSE, urlValid |-> TRUE]
  /\ pc = "idle"
  /\ authToken = NoToken
  /\ sent = <<>>
  /\ result = NoResult
  /\ obs = NoObs

FleetInit ==
  /\ users \in UNION {[1..n -> UserPool] : n \in 1..NumBots}
  /\ fleetDry \in BOOLEAN
  /\ running = FALSE
  /\ bots = <<>>
  /\ fleetPc = "idle"
  /\ fleetResult = NoFleetResult
  /\ SessionIdle
  /\ RunnerIdle /\ ProxyManagerIdle /\ JarIdle /\ FcIdle
  /\ JiggerIdle /\ VariantIdle /\ QueueIdle /\ EngineIdle /\ RaceIdle
  /\ OthersIdle

FleetNext ==
  \/ launch
  \/ stop
  \/ launch_complete
  \/ \E i \in DOMAIN bots :
       \/ runSingleBot_stagger(i)
       \/ bot_resolveVariant(i)
       \/ bot_graphqlCheckout(i)
       \/ bot_checkout(i)
       \/ bot_submitShippingAddress(i)
       \/ bot_selectShippingRate(i)
       \/ bot_submitPayment(i)

FleetSpec == FleetInit /\ [][FleetNext]_vars

----------------------------------------------------------------------------
(* Properties of a fleet launch (checked under FleetSpec) *)

\* C7: a bot in whose execution an exception was raised has the result
\* {success:false, error, step:"fatal"}.
C7_ExceptionYieldsFatalResult ==
  \A i \in DOMAIN bots :
    (bots[i].threw /\ bots[i].pc = "done") => bots[i].result = Fatal

\* C8: for a fleet of N users, successCount is the number of bots whose run
\* succeeded, failCount is N minus successCount, and summaries has exactly N
\* entries, the i-th with the id and name of the i-th user and the outcome of
\* the i-th bot.
C8_TallyMatchesBots ==
  fleetResult.done =>
    /\ fleetResult.successCount = Cardinality({i \in DOMAIN bots : bots[i].ranOk})
    /\ fleetResult.failCount = Len(users) - fleetResult.successCount
    /\ Len(fleetResult.summaries) = Len(users)
    /\ \A i \in 1..Len(users) :
         /\ fleetResult.summaries[i].userId = users[i].id
         /\ fleetResult.summaries[i].userName = users[i].name
         /\ fleetResult.summaries[i].success = bots[i].ranOk
         /\ fleetResult.summaries[i].step = bots[i].result.step

C8_Witness ==
  /\ fleetResult.done
  /\ Len(users) = 2
  /\ users[1] # users[2]
  /\ fleetResult.successCount = 1
  /\ fleetResult.failCount = 1
  /\ fleetResult.summaries[2].success

\* C9: a bot that had not passed its stagger delay when stop() was called
\* never calls its checkout run, issues no request, and ends in state
\* "stopped" with a result whose success is false.
C9_StoppedBeforeStartNeverRuns ==
  \A i \in DOMAIN bots :
    bots[i].stopInStagger =>
      /\ ~InFlight(bots[i])
      /\ ~bots[i].requested
      /\ bots[i].pc = "done" =>
           /\ bots[i].state = "stopped"
           /\ bots[i].result.done /\ ~bots[i].result.success

C9_Witness ==
  /\ fleetResult.done
  /\ \E i \in DOMAIN bots :
       bots[i].stopInStagger /\ bots[i].state = "stopped" /\ bots[i].result = FleetStopped
  /\ \E j \in DOMAIN bots : bots[j].requested

\* C10: a bot whose run was in flight when stop() was called aborts at its
\* next suspension point: once the step that was in flight has completed the
\* bot has ended with a non-success result, and it issues no payment POST.
C10_InFlightBotAbortsOnStop ==
  \A i \in DOMAIN bots :
    (bots[i].stopInFlight /\ bots[i].stepsAfterStop >= 1) =>
      /\ bots[i].pc = "done"
      /\ ~bots[i].result.success
      /\ ~bots[i].payAfterStop

\* C36: once the state of a fleet bot is success, failed or stopped, no step
\* of the launch (a stop() call, a step or the completion of the bot's run)
\* changes it.
FinalStates == {"success", "failed", "stopped"}
C36_FinalBotStateNeverChanges ==
  [][\A i \in DOMAIN bots :
       bots[i].state \in FinalStates => bots'[i].state = bots[i].state]_vars

----------------------------------------------------------------------------
(* TaskRunner (src/task-runner.js): runMulti, runPreWarmed, stop *)

MaxTasks == 3

NoTaskResult ==
  [success |-> FALSE, step |-> "", dryRun |-> FALSE, winner |-> FALSE,
   reason |-> "", error |-> FALSE, resolved |-> FALSE]

\* resolve({ taskId, success: false, reason: "another-task-won" })
AnotherTaskWon == [NoTaskResult EXCEPT !.reason = "another-task-won", !.resolved = TRUE]

\* what task.run() / runFromPreCheckout() can come back with: a result
\* object, or an exception that the task's catch turns into
\* { taskId, success: false, error }
TaskOutcome(dry) ==
  { [NoTaskResult EXCEPT !.success = TRUE, !.step = "complete", !.dryRun = dry,
                         !.resolved = TRUE],
    [NoTaskResult EXCEPT !.step = "payment", !.resolved = TRUE],
    [NoTaskResult EXCEPT !.step = "shipping", !.resolved = TRUE],
    [NoTaskResult EXCEPT !.error = TRUE, !.resolved = TRUE] }

\* an entry of this.tasks with the promise built for it.  requested,
\* wokeAfterWinner and requestAfterWin are history: whether the task's run
\* sent a request, winnerFound at the moment the stagger sleep returned, and
\* whether a request left while winnerFound was set
NewTask(position) ==
  [pc |-> position, requested |-> FALSE, res |-> NoTaskResult,
   wokeAfterWinner |-> FALSE, requestAfterWin |-> FALSE]

NoReturn == [done |-> FALSE, success |-> FALSE, step |-> "", mode |-> ""]

\* if (this.winnerFound) { resolve(another-task-won); return; }
task_winnerFound_ignored(w) == FALSE
task_winnerFound(w) == w

\* the task promises of one call: task index 0 has no stagger sleep and is
\* inside its run before the call's loop reaches the next task
StartTasks(n) ==
  [i \in 1..n |-> IF i = 1 THEN NewTask("run") ELSE NewTask("stagger")]

runMulti ==
  /\ runner.pc = "new"
  /\ \E taskCount \in 1..MaxTasks :
       runner' = [runner EXCEPT !.pc = "running", !.mode = "multi-task",
                                !.winnerFound = FALSE, !.running = TRUE,
                                !.tasks = StartTasks(taskCount)]
  /\ UNCHANGED exceptRunner

\* without pre-warmed tasks: return this.runMulti(config, 1)
runPreWarmed ==
  /\ runner.pc = "new"
  /\ runner' =
       IF Len(runner.tasks) = 0
       THEN [runner EXCEPT !.pc = "running", !.mode = "multi-task",
                           !.winnerFound = FALSE, !.running = TRUE,
                           !.profiles = FALSE, !.tasks = StartTasks(1)]
       ELSE [runner EXCEPT !.pc = "running", !.mode = "pre-warmed",
                           !.winnerFound = FALSE, !.running = TRUE,
                           !.tasks = StartTasks(Len(runner.tasks))]
  /\ UNCHANGED exceptRunner

\* the stagger sleep of task i returns.  runMulti draws each delay at
\* random, so the sleeps end in any order; runPreWarmed sleeps i*50 ms, so
\* they end in index order.
task_stagger(i) ==
  /\ runner.pc = "running"
  /\ runner.tasks[i].pc = "stagger"
  /\ runner.mode = "pre-warmed" =>
       \A j \in 1..(i - 1) : runner.tasks[j].pc # "stagger"
  /\ runner' =
       IF task_winnerFound(runner.winnerFound)
       THEN [runner EXCEPT !.tasks[i].pc = "resolved",
                           !.tasks[i].res = AnotherTaskWon,
                           !.tasks[i].wokeAfterWinner = runner.winnerFound]
       ELSE [runner EXCEPT !.tasks[i].pc = "run",
                           !.tasks[i].wokeAfterWinner = runner.winnerFound]
  /\ UNCHANGED exceptRunner

\* the run of task i sends a request
task_request(i) ==
  /\ runner.pc = "running"
  /\ runner.tasks[i].pc \in {"run", "retry"}
  /\ ~runner.tasks[i].requested \/ (runner.winnerFound /\ ~runner.tasks[i].requestAfterWin)
  /\ runner' = [runner EXCEPT !.tasks[i].requested = TRUE,
                              !.tasks[i].requestAfterWin = @ \/ runner.winnerFound]
  /\ UNCHANGED exceptRunner

\* the winnerFound test left out: every successful run is marked the winner
Resolve_everySuccessWins(i, out) ==
  IF out.success
  THEN [runner EXCEPT !.winnerFound = TRUE,
                      !.tasks[i].pc = "resolved",
                      !.tasks[i].res = [out EXCEPT !.winner = TRUE]]
  ELSE [runner EXCEPT !.tasks[i].pc = "resolved", !.tasks[i].res = out]

\* the lines after the run (or the retry) of task i came back with out
Resolve(i, out) ==
  IF out.success /\ ~runner.winnerFound
  THEN [runner EXCEPT !.winnerFound = TRUE,
                      !.tasks[i].pc = "resolved",
                      !.tasks[i].res = [out EXCEPT !.winner = TRUE]]
  ELSE [runner EXCEPT !.tasks[i].pc = "resolved", !.tasks[i].res = out]

task_run(i) ==
  /\ runner.pc = "running"
  /\ runner.tasks[i].pc = "run"
  /\ \E out \in TaskOutcome(runner.dryRun) :
       runner' =
         IF ~out.success /\ out.step = "payment" /\ runner.profiles
            /\ ~runner.winnerFound
         THEN [runner EXCEPT !.tasks[i].pc = "retry"]
         ELSE Resolve(i, out)
  /\ UNCHANGED exceptRunner

task_retry(i) ==
  /\ runner.pc = "running"
  /\ runner.tasks[i].pc = "retry"
  /\ \E out \in TaskOutcome(runner.dryRun) : runner' = Resolve(i, out)
  /\ UNCHANGED exceptRunner

TaskRunner_stop ==
  /\ runner.pc \in {"new", "running", "done"}
  /\ runner' = [runner EXCEPT !.winnerFound = TRUE, !.running = FALSE]
  /\ UNCHANGED exceptRunner

\* await Promise.all(taskPromises) and the lines after it
runMulti_complete ==
  /\ runner.pc = "running"
  /\ \A i \in DOMAIN runner.tasks : runner.tasks[i].pc = "resolved"
  /\ LET won == \E i \in DOMAIN runner.tasks : runner.tasks[i].res.winner
     IN runner' = [runner EXCEPT
          !.pc = "done", !.running = FALSE,
          !.ret = [done |-> TRUE, success |-> won,
                   step |-> IF won THEN "complete" ELSE "all-failed",
                   mode |-> runner.mode]]
  /\ UNCHANGED exceptRunner

\* a runner after its constructor, or after preWarmAll() filled this.tasks
TaskInit ==
  /\ \E n \in 0..MaxTasks : \E dry \in BOOLEAN : \E profiles \in BOOLEAN :
       runner = [pc |-> "new", mode |-> "", winnerFound |-> FALSE,
                 running |-> FALSE, dryRun |-> dry, profiles |-> profiles,
                 tasks |-> [i \in 1..n |-> NewTask("warm")], ret |-> NoReturn]
  /\ SessionIdle /\ FleetIdle
  /\ ProxyManagerIdle /\ JarIdle /\ FcIdle
  /\ JiggerIdle /\ VariantIdle /\ QueueIdle /\ EngineIdle /\ RaceIdle
  /\ OthersIdle

TaskNext ==
  \/ runMulti
  \/ runPreWarmed
  \/ TaskRunner_stop
  \/ runMulti_complete
  \/ \E i \in DOMAIN runner.tasks :
       \/ task_stagger(i)
       \/ task_request(i)
       \/ task_run(i)
       \/ task_retry(i)

TaskSpec == TaskInit /\ [][TaskNext]_vars

C37_SuccessIffSomeRunSucceeded ==
  runner.ret.done =>
    (runner.ret.success <=> \E i \in DOMAIN runner.tasks : runner.tasks[i].res.success)

\* C38: in one runMulti or runPreWarmed call at most one task result carries
\* winner:true, in whatever order the tasks complete.
Winning == {i \in DOMAIN runner.tasks : runner.tasks[i].res.winner}
C38_AtMostOneWinner == ~RunnerIdle => Cardinality(Winning) <= 1

\* the call has returned; two of its tasks came back from their runs with
\* success:true and one of them carries the winner flag
C38_Witness ==
  /\ ~RunnerIdle
  /\ runner.ret.done
  /\ \E i, j \in DOMAIN runner.tasks :
       /\ i # j
       /\ runner.tasks[i].res.success /\ runner.tasks[j].res.success
       /\ runner.tasks[i].res.winner

----------------------------------------------------------------------------
(* SmartProxyManager (src/http-engine.js) *)

MaxProxies == 2
MaxBans    == 4
MaxTicks   == 3
MaxSamples == 1

ProxyUrls == {"a", "b"}
Latency   == {100, 200}

\* p.bans >= 3 : "3 strikes = dead"
BanLimit == 3

\* now - p.lastBan > 30000
Cooldown == 30000

\* Date.now() advances in steps of a little more than half the cooldown; the
\* constructor's lastBan = 0 is more than one cooldown before any call
TickMs    == Cooldown \div 2 + 1
StartTime == Cooldown + 1

\* an element of this.proxies (requests, which only getStats() reports, is
\* left out); samples counts the reportSuccess calls made for the entry
NewProxy(url) ==
  [url |-> url, bans |-> 0, lastBan |-> 0, avgLatency |-> 0, alive |-> TRUE,
   samples |-> 0]

NoCall == [idx |-> -1, avail |-> {}, dead |-> {}]

\* proxies.filter(p => p.alive && (now - p.lastBan > 30000))
getNext_alive_ignoresFlag(p, now) == now - p.lastBan > Cooldown
getNext_alive(p, now) == p.alive /\ now - p.lastBan > Cooldown

\* alive.sort(fewest bans, then lowest latency)[0]; the sort is stable, so
\* equal entries keep their order in this.proxies
SortsBefore(ps, i, j) ==
  \/ ps[i].bans < ps[j].bans
  \/ ps[i].bans = ps[j].bans /\ ps[i].avgLatency < ps[j].avgLatency
  \/ ps[i].bans = ps[j].bans /\ ps[i].avgLatency = ps[j].avgLatency /\ i <= j

Best(ps, avail) == CHOOSE i \in avail : \A j \in avail : SortsBefore(ps, i, j)

\* this.proxies.find(p => p.url === proxyUrl): index of the first entry with
\* that url, 0 when there is none
Find(ps, url) ==
  IF \E i \in DOMAIN ps : ps[i].url = url
  THEN CHOOSE i \in DOMAIN ps : ps[i].url = url /\ \A j \in 1..(i - 1) : ps[j].url # url
  ELSE 0

getNext ==
  /\ proxyManager.pc = "ready"
  /\ LET ps    == proxyManager.proxies
         now   == proxyManager.now
         avail == {i \in DOMAIN ps : getNext_alive(ps[i], now)}
         dead  == {i \in DOMAIN ps : ps[i].bans >= BanLimit}
     IN IF Len(ps) = 0
        THEN proxyManager' = [proxyManager EXCEPT
               !.last = [idx |-> 0, avail |-> {}, dead |-> {}]]
        ELSE IF avail = {}
        THEN proxyManager' = [proxyManager EXCEPT
               !.proxies = [i \in DOMAIN ps |->
                              [ps[i] EXCEPT !.alive = TRUE, !.bans = 0]],
               !.everReset = TRUE,
               !.last = [idx |-> 1, avail |-> avail, dead |-> dead]]
        ELSE proxyManager' = [proxyManager EXCEPT
               !.last = [idx |-> Best(ps, avail), avail |-> avail, dead |-> dead]]
  /\ UNCHANGED exceptProxyManager

reportBan ==
  /\ proxyManager.pc = "ready"
  /\ \E url \in ProxyUrls :
       LET ps == proxyManager.proxies
           i  == Find(ps, url)
       IN /\ i # 0 => ps[i].bans < MaxBans
          /\ proxyManager' =
               IF i = 0 THEN [proxyManager EXCEPT !.last = NoCall]
               ELSE [proxyManager EXCEPT
                      !.proxies[i].bans = @ + 1,
                      !.proxies[i].lastBan = proxyManager.now,
                      !.proxies[i].alive = IF ps[i].bans + 1 >= BanLimit THEN FALSE ELSE @,
                      !.last = NoCall]
  /\ UNCHANGED exceptProxyManager

\* avgLatency = avgLatency === 0 ? latencyMs : avgLatency*0.7 + latencyMs*0.3
\* (exact in integers for the samples drawn here)
reportSuccess ==
  /\ proxyManager.pc = "ready"
  /\ \E url \in ProxyUrls : \E latencyMs \in Latency :
       LET ps == proxyManager.proxies
           i  == Find(ps, url)
       IN /\ i # 0
          /\ ps[i].samples < MaxSamples
          /\ proxyManager' = [proxyManager EXCEPT
               !.proxies[i].avgLatency =
                  IF @ = 0 THEN latencyMs ELSE (7 * @ + 3 * latencyMs) \div 10,
               !.proxies[i].samples = @ + 1,
               !.last = NoCall]
  /\ UNCHANGED exceptProxyManager

\* time passes between two calls
Tick ==
  /\ proxyManager.pc = "ready"
  /\ proxyManager.now < StartTime + MaxTicks * TickMs
  /\ proxyManager' = [proxyManager EXCEPT !.now = @ + TickMs, !.last = NoCall]
  /\ UNCHANGED exceptProxyManager

\* new SmartProxyManager(proxyList)
PoolInit ==
  /\ \E n \in 0..MaxProxies : \E proxyList \in [1..n -> ProxyUrls] :
       proxyManager = [pc |-> "ready",
                       proxies |-> [i \in 1..n |-> NewProxy(proxyList[i])],
                       now |-> StartTime, last |-> NoCall, everReset |-> FALSE]
  /\ SessionIdle /\ FleetIdle
  /\ RunnerIdle /\ JarIdle /\ FcIdle
  /\ JiggerIdle /\ VariantIdle /\ QueueIdle /\ EngineIdle /\ RaceIdle
  /\ OthersIdle

PoolNext ==
  \/ getNext
  \/ reportBan
  \/ reportSuccess
  \/ Tick

PoolSpec == PoolInit /\ [][PoolNext]_vars

C32_ResetMakesEveryProxyEligible ==
  LET last == proxyManager.last
      ps   == proxyManager.proxies
  IN (~ProxyManagerIdle /\ last.idx = 1 /\ last.avail = {}) =>
       \A i \in DOMAIN ps : getNext_alive(ps[i], proxyManager.now)

----------------------------------------------------------------------------
(* CookieJar (src/fast-checkout.js).  A string is a sequence of characters, *)
(* a hostname the sequence of its dot-separated labels.                     *)

MaxHeaders == 2

\* s.indexOf(c): 0-based, -1 when c does not occur
IndexOf(s, c) ==
  IF \E i \in 1..Len(s) : s[i] = c
  THEN (CHOOSE i \in 1..Len(s) : s[i] = c /\ \A j \in 1..(i - 1) : s[j] # c) - 1
  ELSE -1

\* s.substring(from, to) with 0-based from, exclusive to
Substring(s, from, to) == SubSeq(s, from + 1, to)

\* s.trim()
RECURSIVE Trim(_)
Trim(s) ==
  IF s = <<>> THEN s
  ELSE IF Head(s) = " " THEN Trim(Tail(s))
  ELSE IF s[Len(s)] = " " THEN Trim(SubSeq(s, 1, Len(s) - 1))
  ELSE s

\* s.includes(sub)
Includes(s, sub) ==
  \E i \in 0..(Len(s) - Len(sub)) : SubSeq(s, i + 1, i + Len(sub)) = sub

\* list.join(sep)
RECURSIVE Join(_, _)
Join(list, sep) ==
  IF list = <<>> THEN <<>>
  ELSE IF Len(list) = 1 THEN list[1]
  ELSE list[1] \o sep \o Join(Tail(list), sep)

\* a.endsWith("." + b) on hostnames
EndsWithDot(a, b) ==
  Len(a) > Len(b) /\ SubSeq(a, Len(a) - Len(b) + 1, Len(a)) = b

\* new URL(url).hostname
Hostname(url) == url.host

\* this.store[domain][name] = value : a new key goes last, an existing key
\* keeps its place
Put(cookies, name, value) ==
  IF \E i \in 1..Len(cookies) : cookies[i].name = name
  THEN [i \in 1..Len(cookies) |->
          IF cookies[i].name = name THEN [name |-> name, value |-> value]
          ELSE cookies[i]]
  ELSE Append(cookies, [name |-> name, value |-> value])

\* const eq = parts.indexOf("=")
update_eq(parts) == IndexOf(parts, "=")

\* the body of update()'s loop for one raw header
UpdateOne(cookies, raw) ==
  LET semi  == IndexOf(raw, ";")
      parts == IF semi = -1 THEN raw ELSE Substring(raw, 0, semi)
      eq    == update_eq(parts)
  IN IF eq < 1 THEN cookies
     ELSE Put(cookies, Trim(Substring(parts, 0, eq)),
              Substring(parts, eq + 1, Len(parts)))

RECURSIVE UpdateAll(_, _)
UpdateAll(cookies, arr) ==
  IF arr = <<>> THEN cookies
  ELSE UpdateAll(UpdateOne(cookies, Head(arr)), Tail(arr))

\* this.store: the domains in insertion order, each with its cookies
DomainIndex(store, domain) ==
  IF \E i \in 1..Len(store) : store[i].domain = domain
  THEN CHOOSE i \in 1..Len(store) : store[i].domain = domain
  ELSE 0

CookieJar_update(store, url, setCookieHeaders) ==
  LET domain == Hostname(url)
      st     == IF DomainIndex(store, domain) = 0
                THEN Append(store, [domain |-> domain, cookies |-> <<>>])
                ELSE store
      k      == DomainIndex(st, domain)
  IN [st EXCEPT ![k].cookies = UpdateAll(@, setCookieHeaders)]

RECURSIVE Pairs(_)
Pairs(cookies) ==
  IF cookies = <<>> THEN <<>>
  ELSE <<Head(cookies).name \o <<"=">> \o Head(cookies).value>> \o Pairs(Tail(cookies))

\* domain === d || domain.endsWith("." + d) || d.endsWith("." + domain)
get_matches_exactOnly(domain, d) == domain = d
get_matches(domain, d) ==
  domain = d \/ EndsWithDot(domain, d) \/ EndsWithDot(d, domain)

RECURSIVE Collect(_, _)
Collect(store, domain) ==
  IF store = <<>> THEN <<>>
  ELSE (IF get_matches(domain, Head(store).domain)
        THEN Pairs(Head(store).cookies) ELSE <<>>)
       \o Collect(Tail(store), domain)

CookieJar_get(store, url) == Join(Collect(store, Hostname(url)), <<";", " ">>)

CookieJar_clear == <<>>

\* hosts and set-cookie headers the jar is exercised with
StoreHost == <<"example", "com">>
ShopHost  == <<"shop", "example", "com">>
OtherHost == <<"other", "com">>

\* s=1; P=/    s=2=    ck=1    ck=2=; P=/
Cookies ==
  { [name |-> <<"s">>, value |-> <<"1">>, attrs |-> <<";", " ", "P", "=", "/">>],
    [name |-> <<"s">>, value |-> <<"2", "=">>, attrs |-> <<>>],
    [name |-> <<"c", "k">>, value |-> <<"1">>, attrs |-> <<>>],
    [name |-> <<"c", "k">>, value |-> <<"2", "=">>, attrs |-> <<";", " ", "P", "=", "/">>] }

\* the text of a well-formed set-cookie header
SetCookie(c) == c.name \o <<"=">> \o c.value \o c.attrs

NoJarCall == [op |-> "none", prev |-> "none", host |-> <<>>, supplied |-> <<>>,
              getHost |-> <<>>, out |-> <<>>]

jar_update ==
  /\ jar.pc = "ready"
  /\ \E host \in {StoreHost, ShopHost} : \E n \in 1..MaxHeaders :
     \E supplied \in [1..n -> Cookies] :
       jar' = [jar EXCEPT
         !.store = CookieJar_update(jar.store, [host |-> host],
                                    [i \in 1..n |-> SetCookie(supplied[i])]),
         !.last = [NoJarCall EXCEPT !.op = "update", !.host = host,
                                    !.supplied = supplied]]
  /\ UNCHANGED exceptJar

jar_get ==
  /\ jar.pc = "ready"
  /\ jar.last.op # "get"
  /\ \E host \in {StoreHost, ShopHost, OtherHost} :
       jar' = [jar EXCEPT
         !.last = [jar.last EXCEPT !.op = "get", !.prev = jar.last.op,
                                   !.getHost = host,
                                   !.out = CookieJar_get(jar.store, [host |-> host])]]
  /\ UNCHANGED exceptJar

jar_clear ==
  /\ jar.pc = "ready"
  /\ jar' = [jar EXCEPT !.store = CookieJar_clear,
                        !.last = [NoJarCall EXCEPT !.op = "clear"]]
  /\ UNCHANGED exceptJar

\* new CookieJar()
JarInit ==
  /\ jar = [pc |-> "ready", store |-> <<>>, last |-> NoJarCall]
  /\ SessionIdle /\ FleetIdle
  /\ RunnerIdle /\ ProxyManagerIdle /\ FcIdle
  /\ JiggerIdle /\ VariantIdle /\ QueueIdle /\ EngineIdle /\ RaceIdle
  /\ OthersIdle

JarNext ==
  \/ jar_update
  \/ jar_get
  \/ jar_clear

JarSpec == JarInit /\ [][JarNext]_vars

\* get() was called on a domain matching the one of the update() before it
GetAfterUpdate ==
  /\ jar.last.op = "get" /\ jar.last.prev = "update"
  /\ LET g == jar.last.getHost
         u == jar.last.host
     IN g = u \/ EndsWithDot(g, u) \/ EndsWithDot(u, g)

\* C13 (as claimed): update(url, headers) followed by get on a matching
\* domain returns a string that contains the name=value pair of every header
\* supplied, and get after clear() returns the empty string.
C13_GetReturnsEveryPairSupplied ==
  /\ GetAfterUpdate =>
       \A i \in DOMAIN jar.last.supplied :
         LET c == jar.last.supplied[i]
         IN Includes(jar.last.out, c.name \o <<"=">> \o c.value)
  /\ (jar.last.op = "get" /\ jar.last.prev = "clear") => jar.last.out = <<>>

\* C13 (amended): the string contains, for every cookie name supplied, the
\* name=value pair of the last header that carried that name, and get after
\* clear() returns the empty string.
C13_GetReturnsLastPairPerName ==
  /\ GetAfterUpdate =>
       \A i \in DOMAIN jar.last.supplied :
         LET c == jar.last.supplied[i]
         IN (\A j \in DOMAIN jar.last.supplied :
               j > i => jar.last.supplied[j].name # c.name)
            => Includes(jar.last.out, c.name \o <<"=">> \o c.value)
  /\ (jar.last.op = "get" /\ jar.last.prev = "clear") => jar.last.out = <<>>

\* two headers of one update carried the same name with different values and
\* get was then called on a subdomain of the update's domain
C13_Witness ==
  /\ GetAfterUpdate
  /\ jar.last.getHost # jar.last.host
  /\ \E i, j \in DOMAIN jar.last.supplied :
       /\ i < j
       /\ jar.last.supplied[i].name = jar.last.supplied[j].name
       /\ jar.last.supplied[i].value # jar.last.supplied[j].value

----------------------------------------------------------------------------
(* FastCheckout session state: request(), serializeSession(),               *)
(* restoreSession() (src/fast-checkout.js) over HttpEngine.request()        *)
(* (src/http-engine.js).  A field holds Null, "A" (a value this session     *)
(* obtained itself) or "B" (a value that came out of a snapshot).           *)

MaxRetries == 2

Null      == "null"
Undefined == "undefined"

\* data.savedAt is missing
NoSavedAt == -1

\* 4 * 60 * 60 * 1000
MaxAge == 4 * 60 * 60 * 1000

\* Date.now(): any instant more than 4 hours after the epoch
FcNow == MaxAge + 60 * 60 * 1000

\* the fields after the constructor
FreshSession ==
  [cookies |-> "empty", ua |-> "A", fingerprint |-> "A", authToken |-> Null,
   paymentGatewayId |-> Null, checkoutToken |-> Null, preCheckoutUrl |-> Null,
   preShippingDone |-> FALSE, preShippingRateId |-> Null,
   prePaymentToken |-> Null, baseUrl |-> Null, useH2 |-> TRUE]

\* the fields after a warm-up and a checkout attempt
UsedSession ==
  [cookies |-> "A", ua |-> "A", fingerprint |-> "A", authToken |-> "A",
   paymentGatewayId |-> "A", checkoutToken |-> "A", preCheckoutUrl |-> Null,
   preShippingDone |-> FALSE, preShippingRateId |-> Null,
   prePaymentToken |-> "A", baseUrl |-> "A", useH2 |-> TRUE]

\* a snapshot as read back from the session file: every field present with
\* a value, or every field missing
Snapshot(fill, h2, savedAt) ==
  [cookies |-> fill, ua |-> fill, fingerprint |-> fill, authToken |-> fill,
   paymentGatewayId |-> fill, checkoutToken |-> fill, preCheckoutUrl |-> fill,
   preShippingDone |-> IF fill = Undefined THEN Undefined ELSE "true",
   preShippingRateId |-> fill, prePaymentToken |-> fill, baseUrl |-> fill,
   useH2 |-> h2, savedAt |-> savedAt]

\* serializeSession()
serializeSession(f) ==
  [cookies |-> f.s.cookies, ua |-> f.s.ua, fingerprint |-> f.s.fingerprint,
   authToken |-> f.s.authToken, paymentGatewayId |-> f.s.paymentGatewayId,
   checkoutToken |-> f.s.checkoutToken, preCheckoutUrl |-> f.s.preCheckoutUrl,
   preShippingDone |-> IF f.s.preShippingDone THEN "true" ELSE "false",
   preShippingRateId |-> f.s.preShippingRateId,
   prePaymentToken |-> f.s.prePaymentToken, baseUrl |-> f.s.baseUrl,
   useH2 |-> IF f.s.useH2 THEN "true" ELSE "false", savedAt |-> f.now]

\* x || fallback
OrElse(x, fallback) == IF x \in {Undefined, Null, "false"} THEN fallback ELSE x

\* data.savedAt && (Date.now() - data.savedAt) > 4h
restoreSession_expired(data, now) ==
  data.savedAt # NoSavedAt /\ data.savedAt # 0 /\ now - data.savedAt > MaxAge

\* the assignments of restoreSession() once the snapshot is accepted
Restored(s, data) ==
  [cookies |-> OrElse(data.cookies, "empty"),
   ua |-> OrElse(data.ua, s.ua),
   fingerprint |-> OrElse(data.fingerprint, s.fingerprint),
   authToken |-> OrElse(data.authToken, Null),
   paymentGatewayId |-> OrElse(data.paymentGatewayId, Null),
   checkoutToken |-> OrElse(data.checkoutToken, Null),
   preCheckoutUrl |-> OrElse(data.preCheckoutUrl, Null),
   preShippingDone |-> (OrElse(data.preShippingDone, "false") = "true"),
   preShippingRateId |-> OrElse(data.preShippingRateId, Null),
   prePaymentToken |-> OrElse(data.prePaymentToken, Null),
   baseUrl |-> OrElse(data.baseUrl, Null),
   useH2 |-> IF data.useH2 # Undefined THEN data.useH2 = "true" ELSE TRUE]

\* restoreSession(null), and a session file that holds nothing
NoData == [null |-> TRUE]

NoRestore == [called |-> FALSE, data |-> NoData, before |-> NoData, ret |-> FALSE]

\* what restoreSession() can be handed at time now: a snapshot that
\* serializeSession() wrote a moment ago, exactly 4 hours ago or just over 4
\* hours ago, from a fresh or a used session, before or after that session
\* gave up HTTP/2; or a record of a session file written by other means
\* (fields missing, savedAt missing or 0); or nothing
SnapshotData(now) ==
  {serializeSession([s |-> [ss EXCEPT !.useH2 = h2], now |-> t]) :
     ss \in {FreshSession, UsedSession}, h2 \in BOOLEAN,
     t \in {now - MaxAge - 1, now - MaxAge, now}}
  \cup {Snapshot(fill, h2, savedAt) :
     fill \in {Undefined, "B"}, h2 \in {Undefined, "false"},
     savedAt \in {NoSavedAt, 0}}
  \cup {NoData}

\* restoreSession(data) on the session f
restoreSession(f, data) ==
  IF data = NoData THEN [f EXCEPT !.restore = [called |-> TRUE, data |-> data,
                                             before |-> f.s, ret |-> FALSE]]
  ELSE IF restoreSession_expired(data, f.now)
  THEN [f EXCEPT !.restore = [called |-> TRUE, data |-> data,
                              before |-> f.s, ret |-> FALSE]]
  ELSE [f EXCEPT !.s = Restored(f.s, data),
                 !.restore = [called |-> TRUE, data |-> data,
                              before |-> f.s, ret |-> TRUE]]

\* one iteration of request()'s for loop begins: past the last attempt the
\* loop ends and the function returns undefined; with useH2 and no proxy the
\* engine is asked, which tries HTTP/2 first; otherwise node-fetch is used
Attempt(f, attempt) ==
  IF attempt > f.retries
  THEN [f EXCEPT !.pc = "ready", !.ret = "undefined"]
  ELSE IF f.s.useH2 /\ ~f.proxyAgent
  THEN [f EXCEPT !.pc = "h2", !.attempt = attempt,
                 !.h2AfterFallback = @ \/ f.fellBack]
  ELSE [f EXCEPT !.pc = "fetch", !.attempt = attempt]

\* catch (err) of request()
request_catch(f) ==
  IF f.s.useH2 /\ f.attempt = 0
  THEN Attempt([f EXCEPT !.s.useH2 = FALSE, !.fellBack = TRUE], f.attempt + 1)
  ELSE IF f.attempt = f.retries
  THEN [f EXCEPT !.pc = "ready", !.ret = "threw"]
  ELSE [f EXCEPT !.pc = "backoff"]

request ==
  /\ fc.pc = "ready"
  /\ \E retries \in 0..MaxRetries :
       fc' = Attempt([fc EXCEPT !.retries = retries, !.ret = "pending",
                                !.restore = NoRestore], 0)
  /\ UNCHANGED exceptFc

\* await this._requestH2(...) inside HttpEngine.request
HttpEngine_requestH2 ==
  /\ fc.pc = "h2"
  /\ \E ok \in BOOLEAN :
       fc' = IF ok THEN [fc EXCEPT !.pc = "ready", !.ret = "response",
                                   !.restore = NoRestore]
             ELSE [fc EXCEPT !.pc = "undici", !.fellBack = TRUE,
                             !.restore = NoRestore]
  /\ UNCHANGED exceptFc

\* the engine's fallback: await undiciRequest(...)
HttpEngine_requestUndici ==
  /\ fc.pc = "undici"
  /\ \E ok \in BOOLEAN :
       fc' = IF ok THEN [fc EXCEPT !.pc = "ready", !.ret = "response",
                                   !.restore = NoRestore]
             ELSE request_catch([fc EXCEPT !.restore = NoRestore])
  /\ UNCHANGED exceptFc

\* await fetch(url, fetchOpts)
request_fetch ==
  /\ fc.pc = "fetch"
  /\ \E ok \in BOOLEAN :
       fc' = IF ok THEN [fc EXCEPT !.pc = "ready", !.ret = "response",
                                   !.restore = NoRestore]
             ELSE request_catch([fc EXCEPT !.restore = NoRestore])
  /\ UNCHANGED exceptFc

\* await this._sleep(500 * 2^attempt)
request_backoff ==
  /\ fc.pc = "backoff"
  /\ fc' = Attempt([fc EXCEPT !.restore = NoRestore], fc.attempt + 1)
  /\ UNCHANGED exceptFc

\* restoreSession(data), called between two requests
fc_restoreSession ==
  /\ fc.pc = "ready"
  /\ \E data \in SnapshotData(fc.now) : fc' = restoreSession(fc, data)
  /\ UNCHANGED exceptFc

\* a session right after new FastCheckout(), or after it has been used, with
\* or without a proxy agent assigned by its runner
FcInit ==
  /\ \E s \in {FreshSession, UsedSession} : \E proxy \in BOOLEAN :
       fc = [pc |-> "ready", s |-> s, proxyAgent |-> proxy, now |-> FcNow,
             restore |-> NoRestore, retries |-> 0, attempt |-> 0,
             ret |-> "none", fellBack |-> FALSE, h2AfterFallback |-> FALSE]
  /\ SessionIdle /\ FleetIdle
  /\ RunnerIdle /\ ProxyManagerIdle /\ JarIdle
  /\ JiggerIdle /\ VariantIdle /\ QueueIdle /\ EngineIdle /\ RaceIdle
  /\ OthersIdle

FcNext ==
  \/ request
  \/ HttpEngine_requestH2
  \/ HttpEngine_requestUndici
  \/ request_fetch
  \/ request_backoff
  \/ fc_restoreSession

FcSpec == FcInit /\ [][FcNext]_vars

\* C14: restoreSession called with a snapshot whose savedAt (whatever its
\* value, 0 included) lies more than 4 hours before the current time returns
\* false and leaves every field of the session as it was before the call.
C14_ExpiredSnapshotRejected ==
  LET r == fc.restore IN
    (/\ r.called /\ r.data # NoData
     /\ r.data.savedAt # NoSavedAt
     /\ fc.now - r.data.savedAt > MaxAge)
    => (~r.ret /\ fc.s = r.before)

\* C20: no request tries HTTP/2 after a request of the same session has
\* fallen back from HTTP/2 to HTTP/1.1.
C20_FallbackIsSticky == ~fc.h2AfterFallback

\* C33: a request(url, options, retries) call runs its loop body at most
\* retries + 1 times and ends by returning a response or by throwing the last
\* error; it never completes with neither (returning undefined).
C33_RequestEndsWithResponseOrError ==
  ~FcIdle => (fc.attempt <= fc.retries /\ fc.ret # "undefined")

----------------------------------------------------------------------------
(* Address jigging: AddressJigger (src/fleet-runner.js) and                 *)
(* FastCheckout.jigAddress (src/fast-checkout.js), on strings as sequences  *)
(* of characters.                                                           *)

MaxStrLen == 2

LowerCase == <<"a", "b", "c", "d", "e", "f", "g", "h", "i", "j", "k", "l", "m", "n", "o", "p", "q", "r", "s", "t", "u", "v", "w", "x", "y", "z">>
UpperCase == <<"A", "B", "C", "D", "E", "F", "G", "H", "I", "J", "K", "L", "M", "N", "O", "P", "Q", "R", "S", "T", "U", "V", "W", "X", "Y", "Z">>
Digits    == {"0", "1", "2", "3", "4", "5", "6", "7", "8", "9"}

IsDigit(c) == c \in Digits
IsSpace(c) == c = " "

ToUpperChar(c) ==
  IF \E i \in 1..26 : LowerCase[i] = c
  THEN UpperCase[CHOOSE i \in 1..26 : LowerCase[i] = c] ELSE c
ToLowerChar(c) ==
  IF \E i \in 1..26 : UpperCase[i] = c
  THEN LowerCase[CHOOSE i \in 1..26 : UpperCase[i] = c] ELSE c

\* s.toUpperCase(), s.toLowerCase()
ToUpperCase(s) == IF s = <<>> THEN <<>> ELSE [i \in 1..Len(s) |-> ToUpperChar(s[i])]
ToLowerCase(s) == IF s = <<>> THEN <<>> ELSE [i \in 1..Len(s) |-> ToLowerChar(s[i])]

\* pick.charAt(0).toUpperCase() + pick.slice(1)
Capitalize(s) == IF s = <<>> THEN <<>> ELSE <<ToUpperChar(s[1])>> \o Tail(s)

\* s.replace(/[.,]$/, ''), s.replace(/[.]$/, ''), s.replace(/[.,]+$/, '')
StripOne(s, set) ==
  IF s # <<>> /\ s[Len(s)] \in set THEN SubSeq(s, 1, Len(s) - 1) ELSE s
RECURSIVE StripAll(_, _)
StripAll(s, set) ==
  IF s # <<>> /\ s[Len(s)] \in set THEN StripAll(SubSeq(s, 1, Len(s) - 1), set) ELSE s

\* s.split(/\s+/)
RECURSIVE SplitAcc(_, _, _, _)
SplitAcc(s, cur, out, inSep) ==
  IF s = <<>> THEN Append(out, cur)
  ELSE IF IsSpace(Head(s))
  THEN IF inSep THEN SplitAcc(Tail(s), <<>>, out, TRUE)
       ELSE SplitAcc(Tail(s), <<>>, Append(out, cur), TRUE)
  ELSE SplitAcc(Tail(s), Append(cur, Head(s)), out, FALSE)
SplitWs(s) == SplitAcc(s, <<>>, <<>>, FALSE)

\* s.replace(/\s+/g, ''), s.replace(/\D/g, '')
RemoveSpaces(s) == SelectSeq(s, LAMBDA c : ~IsSpace(c))
OnlyDigits(s)   == SelectSeq(s, IsDigit)

\* length of the run of digits (of whitespace) of s from position i on
RECURSIVE DigitRun(_, _)
DigitRun(s, i) == IF i <= Len(s) /\ IsDigit(s[i]) THEN 1 + DigitRun(s, i + 1) ELSE 0
RECURSIVE SpaceRun(_, _)
SpaceRun(s, i) == IF i <= Len(s) /\ IsSpace(s[i]) THEN 1 + SpaceRun(s, i + 1) ELSE 0

STREET_TYPES ==
  {
    [key |-> <<"s", "t", "r", "e", "e", "t">>,
     variants |-> <<<<"s", "t", "r", "e", "e", "t">>, <<"s", "t">>, <<"s", "t", ".">>, <<"s", "t", "r">>>>],
    [key |-> <<"s", "t">>,
     variants |-> <<<<"s", "t", "r", "e", "e", "t">>, <<"s", "t">>, <<"s", "t", ".">>, <<"s", "t", "r">>>>],
    [key |-> <<"s", "t", ".">>,
     variants |-> <<<<"s", "t", "r", "e", "e", "t">>, <<"s", "t">>, <<"s", "t", ".">>, <<"s", "t", "r">>>>],
    [key |-> <<"r", "o", "a", "d">>,
     variants |-> <<<<"r", "o", "a", "d">>, <<"r", "d">>, <<"r", "d", ".">>>>],
    [key |-> <<"r", "d">>,
     variants |-> <<<<"r", "o", "a", "d">>, <<"r", "d">>, <<"r", "d", ".">>>>],
    [key |-> <<"r", "d", ".">>,
     variants |-> <<<<"r", "o", "a", "d">>, <<"r", "d">>, <<"r", "d", ".">>>>],
    [key |-> <<"a", "v", "e", "n", "u", "e">>,
     variants |-> <<<<"a", "v", "e", "n", "u", "e">>, <<"a", "v", "e">>, <<"a", "v", "e", ".">>, <<"a", "v">>>>],
    [key |-> <<"a", "v", "e">>,
     variants |-> <<<<"a", "v", "e", "n", "u", "e">>, <<"a", "v", "e">>, <<"a", "v", "e", ".">>, <<"a", "v">>>>],
    [key |-> <<"a", "v", "e", ".">>,
     variants |-> <<<<"a", "v", "e", "n", "u", "e">>, <<"a", "v", "e">>, <<"a", "v", "e", ".">>, <<"a", "v">>>>],
    [key |-> <<"d", "r", "i", "v", "e">>,
     variants |-> <<<<"d", "r", "i", "v", "e">>, <<"d", "r">>, <<"d", "r", ".">>>>],
    [key |-> <<"d", "r">>,
     variants |-> <<<<"d", "r", "i", "v", "e">>, <<"d", "r">>, <<"d", "r", ".">>>>],
    [key |-> <<"l", "a", "n", "e">>,
     variants |-> <<<<"l", "a", "n", "e">>, <<"l", "n">>, <<"l", "n", ".">>>>],
    [key |-> <<"l", "n">>,
     variants |-> <<<<"l", "a", "n", "e">>, <<"l", "n">>, <<"l", "n", ".">>>>],
    [key |-> <<"c", "l", "o", "s", "e">>,
     variants |-> <<<<"c", "l", "o", "s", "e">>, <<"c", "l">>, <<"c", "l", ".">>>>],
    [key |-> <<"c", "l">>,
     variants |-> <<<<"c", "l", "o", "s", "e">>, <<"c", "l">>, <<"c", "l", ".">>>>],
    [key |-> <<"c", "o", "u", "r", "t">>,
     variants |-> <<<<"c", "o", "u", "r", "t">>, <<"c", "t">>, <<"c", "t", ".">>>>],
    [key |-> <<"c", "t">>,
     variants |-> <<<<"c", "o", "u", "r", "t">>, <<"c", "t">>, <<"c", "t", ".">>>>],
    [key |-> <<"p", "l", "a", "c", "e">>,
     variants |-> <<<<"p", "l", "a", "c", "e">>, <<"p", "l">>, <<"p", "l", ".">>>>],
    [key |-> <<"p", "l">>,
     variants |-> <<<<"p", "l", "a", "c", "e">>, <<"p", "l">>, <<"p", "l", ".">>>>],
    [key |-> <<"t", "e", "r", "r", "a", "c", "e">>,
     variants |-> <<<<"t", "e", "r", "r", "a", "c", "e">>, <<"t", "e", "r", "r">>, <<"t", "e", "r">>>>],
    [key |-> <<"c", "r", "e", "s", "c", "e", "n", "t">>,
     variants |-> <<<<"c", "r", "e", "s", "c", "e", "n", "t">>, <<"c", "r", "e", "s">>, <<"c", "r">>>>],
    [key |-> <<"g", "a", "r", "d", "e", "n", "s">>,
     variants |-> <<<<"g", "a", "r", "d", "e", "n", "s">>, <<"g", "d", "n", "s">>, <<"g", "d", "n">>>>],
    [key |-> <<"g", "r", "o", "v", "e">>,
     variants |-> <<<<"g", "r", "o", "v", "e">>, <<"g", "r">>, <<"g", "r", "v">>>>],
    [key |-> <<"w", "a", "y">>,
     variants |-> <<<<"w", "a", "y">>, <<"w", "y">>>>],
    [key |-> <<"p", "a", "r", "k">>,
     variants |-> <<<<"p", "a", "r", "k">>, <<"p", "k">>>>],
    [key |-> <<"h", "i", "l", "l">>,
     variants |-> <<<<"h", "i", "l", "l">>, <<"h", "l">>>>],
    [key |-> <<"s", "q", "u", "a", "r", "e">>,
     variants |-> <<<<"s", "q", "u", "a", "r", "e">>, <<"s", "q">>, <<"s", "q", ".">>>>],
    [key |-> <<"b", "o", "u", "l", "e", "v", "a", "r", "d">>,
     variants |-> <<<<"b", "o", "u", "l", "e", "v", "a", "r", "d">>, <<"b", "l", "v", "d">>, <<"b", "l", "v", "d", ".">>>>]
  }

UNIT_PREFIXES ==
  {
    [key |-> <<"f", "l", "a", "t">>,
     variants |-> <<<<"f", "l", "a", "t">>, <<"f", "l">>, <<"f", "l", "t">>, <<"u", "n", "i", "t">>, <<"a", "p", "t">>>>],
    [key |-> <<"f", "l">>,
     variants |-> <<<<"f", "l", "a", "t">>, <<"f", "l">>, <<"f", "l", "t">>, <<"u", "n", "i", "t">>, <<"a", "p", "t">>>>],
    [key |-> <<"f", "l", "t">>,
     variants |-> <<<<"f", "l", "a", "t">>, <<"f", "l">>, <<"f", "l", "t">>, <<"u", "n", "i", "t">>, <<"a", "p", "t">>>>],
    [key |-> <<"u", "n", "i", "t">>,
     variants |-> <<<<"u", "n", "i", "t">>, <<"f", "l", "a", "t">>, <<"f", "l">>, <<"a", "p", "t">>>>],
    [key |-> <<"a", "p", "t">>,
     variants |-> <<<<"a", "p", "t">>, <<"a", "p", "t", ".">>, <<"a", "p", "a", "r", "t", "m", "e", "n", "t">>, <<"f", "l", "a", "t">>, <<"u", "n", "i", "t">>>>],
    [key |-> <<"a", "p", "a", "r", "t", "m", "e", "n", "t">>,
     variants |-> <<<<"a", "p", "a", "r", "t", "m", "e", "n", "t">>, <<"a", "p", "t">>, <<"a", "p", "t", ".">>, <<"f", "l", "a", "t">>, <<"u", "n", "i", "t">>>>]
  }

DIRECTIONS ==
  {
    [key |-> <<"n", "o", "r", "t", "h">>,
     variants |-> <<<<"n", "o", "r", "t", "h">>, <<"n">>, <<"n", ".">>>>],
    [key |-> <<"n">>,
     variants |-> <<<<"n", "o", "r", "t", "h">>, <<"n">>, <<"n", ".">>>>],
    [key |-> <<"s", "o", "u", "t", "h">>,
     variants |-> <<<<"s", "o", "u", "t", "h">>, <<"s">>, <<"s", ".">>>>],
    [key |-> <<"s">>,
     variants |-> <<<<"s", "o", "u", "t", "h">>, <<"s">>, <<"s", ".">>>>],
    [key |-> <<"e", "a", "s", "t">>,
     variants |-> <<<<"e", "a", "s", "t">>, <<"e">>, <<"e", ".">>>>],
    [key |-> <<"e">>,
     variants |-> <<<<"e", "a", "s", "t">>, <<"e">>, <<"e", ".">>>>],
    [key |-> <<"w", "e", "s", "t">>,
     variants |-> <<<<"w", "e", "s", "t">>, <<"w">>, <<"w", ".">>>>],
    [key |-> <<"w">>,
     variants |-> <<<<"w", "e", "s", "t">>, <<"w">>, <<"w", ".">>>>]
  }

\* TABLE[word] : the variants listed under the key, <<>> when there is none
Lookup(tbl, word) ==
  IF \E r \in tbl : r.key = word
  THEN (CHOOSE r \in tbl : r.key = word).variants ELSE <<>>

\* s.slice(a, b): 0-based, b exclusive, negative positions count from the end
SlicePos(s, a) == IF a < 0 THEN (IF Len(s) + a < 0 THEN 0 ELSE Len(s) + a)
                  ELSE (IF a > Len(s) THEN Len(s) ELSE a)
Slice(s, a, b) == SubSeq(s, SlicePos(s, a) + 1, SlicePos(s, b))
SliceFrom(s, a) == Slice(s, a, Len(s))

\* words[i][0] === words[i][0].toUpperCase() ? capitalised pick : pick
MatchCase(word, pick) ==
  IF word[1] = ToUpperChar(word[1]) THEN Capitalize(pick) ELSE pick

\* addr.match(/^(\d+)\s+(.+)/): the two groups; num is empty when there is
\* no match.  \s+ gives its last character back when nothing follows it.
NoMatch == [num |-> <<>>, rest |-> <<>>]
numMatch(s) ==
  LET d == DigitRun(s, 1)
      w == SpaceRun(s, d + 1)
  IN  IF d = 0 \/ w = 0 THEN NoMatch
      ELSE IF d + w < Len(s)
      THEN [num |-> SubSeq(s, 1, d), rest |-> SubSeq(s, d + w + 1, Len(s))]
      ELSE IF w >= 2
      THEN [num |-> SubSeq(s, 1, d), rest |-> <<s[Len(s)]>>]
      ELSE NoMatch

\* one round of the loop of _jigStreetAddress on words[i] (i counts from 0)
jigStreetType(word, seed, i) ==
  LET variants == Lookup(STREET_TYPES, StripOne(ToLowerCase(word), {".", ","}))
  IN  IF variants # <<>>
      THEN MatchCase(word, variants[((seed + i) % Len(variants)) + 1])
      ELSE word
jigDirection(word, seed, i) ==
  LET variants == Lookup(DIRECTIONS, StripOne(ToLowerCase(word), {"."}))
  IN  IF variants # <<>>
      THEN MatchCase(word, variants[((seed + i + 1) % Len(variants)) + 1])
      ELSE word
jigWords(words, seed) ==
  [i \in 1..Len(words) |->
     jigDirection(jigStreetType(words[i], seed, i - 1), seed, i - 1)]

\* AddressJigger._jigStreetAddress(addr, seed)
jigStreetAddress(addr, seed) ==
  IF addr = <<>> THEN addr
  ELSE
    LET m == numMatch(addr)
        numVariants == <<m.num, m.num \o <<".">>, <<"0">> \o m.num, <<"#">> \o m.num>>
        numbered == IF m # NoMatch
                    THEN numVariants[(seed % 4) + 1] \o <<" ">> \o m.rest
                    ELSE addr
        joined == Join(jigWords(SplitWs(numbered), seed), <<" ">>)
        cased  == IF seed % 5 = 1 THEN ToUpperCase(joined)
                  ELSE IF seed % 5 = 2 THEN ToLowerCase(joined)
                  ELSE joined
    IN  IF seed % 3 = 1 /\ ~(cased # <<>> /\ cased[Len(cased)] = ".")
        THEN cased \o <<".">>
        ELSE IF seed % 3 = 2 THEN StripAll(cased, {".", ","})
        ELSE cased

\* result.replace(/(\D)\s+(\d)/, '$1$2'): first match only
CloseUp(s) ==
  LET At(i) == /\ ~IsDigit(s[i])
               /\ SpaceRun(s, i + 1) >= 1
               /\ i + SpaceRun(s, i + 1) + 1 <= Len(s)
               /\ IsDigit(s[i + SpaceRun(s, i + 1) + 1])
  IN  IF \E i \in 1..Len(s) : At(i)
      THEN LET i == CHOOSE i \in 1..Len(s) : At(i) /\ \A j \in 1..(i - 1) : ~At(j)
           IN  SubSeq(s, 1, i) \o SubSeq(s, i + SpaceRun(s, i + 1) + 1, Len(s))
      ELSE s

\* result.replace(/(\D)(\d)/, '$1 $2'): first match only
SpaceOut(s) ==
  LET At(i) == ~IsDigit(s[i]) /\ i + 1 <= Len(s) /\ IsDigit(s[i + 1])
  IN  IF \E i \in 1..Len(s) : At(i)
      THEN LET i == CHOOSE i \in 1..Len(s) : At(i) /\ \A j \in 1..(i - 1) : ~At(j)
           IN  SubSeq(s, 1, i) \o <<" ">> \o SubSeq(s, i + 1, Len(s))
      ELSE s

\* AddressJigger._jigAddressLine2(addr2, addr1, seed)
jigAddressLine2(addr2, addr1, seed) ==
  IF addr2 = <<>> THEN << <<>>, <<".">>, <<",">>, <<"-">> >>[(seed % 4) + 1]
  ELSE
    LET words    == SplitWs(addr2)
        variants == Lookup(UNIT_PREFIXES, StripOne(ToLowerCase(words[1]), {".", ","}))
        first    == IF variants # <<>>
                    THEN Capitalize(variants[(seed % Len(variants)) + 1])
                    ELSE words[1]
        joined   == Join(<<first>> \o Tail(words), <<" ">>)
        spaced   == IF seed % 4 = 1 THEN CloseUp(joined)
                    ELSE IF seed % 4 = 2 THEN SpaceOut(joined)
                    ELSE joined
    IN  IF seed % 6 = 3 THEN ToUpperCase(spaced)
        ELSE IF seed % 6 = 4 THEN ToLowerCase(spaced)
        ELSE spaced

\* name.charAt(0).toUpperCase() + name.slice(1).toLowerCase()
Normalized(name) == <<ToUpperChar(name[1])>> \o ToLowerCase(Tail(name))

\* AddressJigger._jigFirstName(name, seed)
jigFirstName(name, seed) ==
  IF name = <<>> THEN name
  ELSE <<name,
         <<ToUpperChar(name[1]), ".">>,
         <<ToUpperChar(name[1])>>,
         ToUpperCase(name),
         ToLowerCase(name),
         Normalized(name)>>[(seed % 6) + 1]

\* AddressJigger._jigLastName(name, seed)
jigLastName(name, seed) ==
  IF name = <<>> THEN name
  ELSE <<name, ToUpperCase(name), ToLowerCase(name), Normalized(name)>>[(seed % 4) + 1]

\* AddressJigger._jigPostcode(zip, seed)
jigPostcode(zip, seed) ==
  IF zip = <<>> THEN zip
  ELSE
    LET clean == ToUpperCase(RemoveSpaces(zip))
    IN  <<zip,
          clean,
          IF Len(clean) > 3
          THEN Slice(clean, 0, -3) \o <<" ">> \o SliceFrom(clean, -3)
          ELSE clean,
          ToLowerCase(zip),
          ToLowerCase(clean)>>[(seed % 5) + 1]

\* AddressJigger._jigCity(city, seed)
jigCity(city, seed) ==
  IF city = <<>> THEN city
  ELSE <<city, ToUpperCase(city), ToLowerCase(city), Normalized(city)>>[(seed % 4) + 1]

\* AddressJigger._jigPhone(phone, seed)
jigPhone(phone, seed) ==
  IF phone = <<>> THEN phone
  ELSE
    LET digits == OnlyDigits(phone)
    IN  IF Len(digits) < 10 THEN phone
        ELSE <<phone,
               digits,
               IF SubSeq(digits, 1, 2) = <<"4", "4">>
               THEN <<"0">> \o SubSeq(digits, 3, Len(digits)) ELSE digits,
               <<"+", "4", "4", " ">> \o Slice(digits, -10, -7) \o <<" ">>
                 \o Slice(digits, -7, -4) \o <<" ">> \o SliceFrom(digits, -4),
               <<"0">> \o Slice(digits, -10, -6) \o <<" ">> \o SliceFrom(digits, -6),
               <<"(", "0">> \o Slice(digits, -10, -7) \o <<")", " ">>
                 \o SliceFrom(digits, -7)>>[(seed % 6) + 1]

\* AddressJigger.jig(address, index)
AddressJigger_jig(address, index) ==
  IF index = 0 THEN address
  ELSE [address EXCEPT
          !.address   = jigStreetAddress(address.address, index),
          !.address2  = jigAddressLine2(address.address2, address.address, index),
          !.firstName = jigFirstName(address.firstName, index),
          !.lastName  = jigLastName(address.lastName, index),
          !.zip       = jigPostcode(address.zip, index),
          !.city      = jigCity(address.city, index),
          !.phone     = jigPhone(address.phone, index)]

\* the suffixes of FastCheckout.jigAddress
suffixes ==
  <<<<>>,
    <<"A", "p", "t", " ", "1">>,
    <<"A", "p", "t", " ", "2">>,
    <<"A", "p", "t", " ", "A">>,
    <<"A", "p", "t", " ", "B">>,
    <<"S", "u", "i", "t", "e", " ", "1">>,
    <<"U", "n", "i", "t", " ", "1">>,
    <<"S", "t", "e", " ", "2">>,
    <<"#", "1">>,
    <<"#", "2">>,
    <<"A", "p", "t", " ", "3">>,
    <<"A", "p", "t", " ", "C">>,
    <<"S", "u", "i", "t", "e", " ", "3">>,
    <<"U", "n", "i", "t", " ", "2">>,
    <<"S", "t", "e", " ", "1">>,
    <<"#", "3">>,
    <<"A", "p", "t", " ", "4">>,
    <<"A", "p", "t", " ", "D">>,
    <<"S", "u", "i", "t", "e", " ", "4">>,
    <<"U", "n", "i", "t", " ", "3">>,
    <<"F", "l", " ", "1">>,
    <<"F", "l", " ", "2">>,
    <<"R", "m", " ", "1">>,
    <<"R", "m", " ", "2">>,
    <<"B", "o", "x", " ", "1">>,
    <<"B", "o", "x", " ", "2">>,
    <<"D", "e", "p", "t", " ", "1">>,
    <<"D", "e", "p", "t", " ", "2">>,
    <<"B", "l", "d", "g", " ", "A">>,
    <<"B", "l", "d", "g", " ", "B">>,
    <<"A", "p", "t", " ", "5">>,
    <<"A", "p", "t", " ", "E">>,
    <<"S", "u", "i", "t", "e", " ", "5">>,
    <<"U", "n", "i", "t", " ", "4">>,
    <<"S", "t", "e", " ", "3">>,
    <<"#", "4">>,
    <<"A", "p", "t", " ", "6">>,
    <<"A", "p", "t", " ", "F">>,
    <<"S", "u", "i", "t", "e", " ", "6">>,
    <<"U", "n", "i", "t", " ", "5">>,
    <<"F", "l", " ", "3">>,
    <<"F", "l", " ", "4">>,
    <<"R", "m", " ", "3">>,
    <<"R", "m", " ", "4">>,
    <<"B", "o", "x", " ", "3">>,
    <<"B", "o", "x", " ", "4">>,
    <<"D", "e", "p", "t", " ", "3">>,
    <<"D", "e", "p", "t", " ", "4">>,
    <<"B", "l", "d", "g", " ", "C">>,
    <<"B", "l", "d", "g", " ", "D">>>>

\* FastCheckout.jigAddress(details, taskIndex)
jigAddress(details, taskIndex) ==
  IF taskIndex = 0 THEN details
  ELSE
    LET a2 == [details EXCEPT !.address2 = suffixes[(taskIndex % Len(suffixes)) + 1]]
        fn == IF taskIndex % 3 = 1 /\ a2.firstName # <<>>
              THEN [a2 EXCEPT !.firstName = <<a2.firstName[1], ".">>] ELSE a2
    IN  IF taskIndex % 3 = 2 /\ fn.lastName # <<>>
        THEN [fn EXCEPT !.lastName = fn.lastName \o <<".">>] ELSE fn

\* the bot / task indexes: "Bot index (0-49)"
MaxIndex == 49

\* characters the inputs are drawn from: a digit, whitespace, punctuation,
\* and letters that spell a street type ("st") and a direction ("s")
JigChars == {"1", " ", ".", "s", "S", "t"}
Strings(n) == UNION {[1..k -> JigChars] : k \in 0..n}

JigFields == {"firstName", "lastName", "address", "address2", "city", "zip", "phone"}
RequiredFields == {"firstName", "lastName", "address", "city", "zip", "phone"}

SampleAddress ==
  [firstName |-> <<"J", "o", "h", "n">>,
   lastName  |-> <<"S", "m", "i", "t", "h">>,
   address   |-> <<"1", "2", " ", "M", "a", "i", "n", " ", "S", "t", ".">>,
   address2  |-> <<"F", "l", "a", "t", " ", "4", "B">>,
   city      |-> <<"L", "o", "n", "d", "o", "n">>,
   zip       |-> <<"S", "W", "1", "A", " ", "1", "A", "A">>,
   country   |-> <<"G", "B">>,
   phone     |-> <<"+", "4", "4", " ", "7", "9", "1", "1", " ", "1", "2", "3", "4", "5", "6">>]

NoAddress == [none |-> TRUE]

\* FleetRunner hands the checkout details to AddressJigger.jig
FleetRunner_jig ==
  /\ jigger.pc = "input"
  /\ jigger.byBot = NoAddress
  /\ jigger' = [jigger EXCEPT !.byBot = AddressJigger_jig(jigger.address, jigger.index)]
  /\ UNCHANGED exceptJigger

\* FastCheckout.run hands the checkout details to jigAddress
FastCheckout_jig ==
  /\ jigger.pc = "input"
  /\ jigger.byTask = NoAddress
  /\ jigger' = [jigger EXCEPT !.byTask = jigAddress(jigger.address, jigger.index)]
  /\ UNCHANGED exceptJigger

JigInit ==
  /\ \E f \in JigFields, s \in Strings(MaxStrLen), index \in 0..MaxIndex :
       jigger = [pc      |-> "input",
                 address |-> [SampleAddress EXCEPT ![f] = s],
                 index   |-> index,
                 byBot   |-> NoAddress,
                 byTask  |-> NoAddress]
  /\ SessionIdle /\ FleetIdle
  /\ RunnerIdle /\ ProxyManagerIdle /\ JarIdle /\ FcIdle
  /\ VariantIdle /\ QueueIdle /\ EngineIdle /\ RaceIdle
  /\ OthersIdle

JigNext ==
  \/ FleetRunner_jig
  \/ FastCheckout_jig

JigSpec == JigInit /\ [][JigNext]_vars

\* C15: both jigging operations return the input unchanged at index 0 and
\* keep every required field that was non-empty in the input non-empty in
\* the output.  (That a second call with the same index and input returns
\* the same output is how the operators are built: neither reads anything
\* but its two arguments.)
JigKeeps(out) ==
  out # NoAddress =>
    /\ jigger.index = 0 => out = jigger.address
    /\ \A f \in RequiredFields : jigger.address[f] # <<>> => out[f] # <<>>
C15_JigKeepsRequiredFields ==
  ~JiggerIdle => JigKeeps(jigger.byBot) /\ JigKeeps(jigger.byTask)

----------------------------------------------------------------------------
(* FastCheckout.resolveVariant (src/fast-checkout.js): one call, every      *)
(* request it issues answered by the store in any way.                      *)

MaxVariants == 2
MaxProducts == 1
MaxPages    == 5

NoVariant == [none |-> TRUE]
Pending   == "(pending)"

\* what a store can put into a variant title, and what a caller asks for
Titles    == {<<"b", " ", "c">>, <<"A">>, <<"a", " ", "b">>}
ItemNames == {<<>>, <<"a">>, <<"a", " ", "b">>}

\* product.variants of a response: ids are the positions in the list
WithIds(vs) ==
  IF vs = <<>> THEN <<>>
  ELSE [i \in 1..Len(vs) |-> [id |-> i, title |-> vs[i].title, available |-> vs[i].available]]
VariantsOf(titles) ==
  {WithIds(vs) : vs \in UNION {[1..n -> [title : titles, available : BOOLEAN]] :
                                 n \in 0..MaxVariants}}
Variants == VariantsOf(Titles)
\* the catalog scan never reads a variant title: its variants carry none
UntitledVariants == VariantsOf({<<>>})

\* answers to GET <product>.json, GET /search/suggest.json, GET /products.json
ProductAnswers ==
  {[status |-> s, variants |-> <<>>] : s \in {"throw", "notOk"}}
    \cup {[status |-> "ok", variants |-> vs] : vs \in Variants}
SearchAnswers ==
  {[status |-> s, products |-> n] : s \in {"throw", "notOk"}, n \in {0}}
    \cup {[status |-> "ok", products |-> n] : n \in 0..MaxProducts}
Products == [title : Titles, variants : UntitledVariants]
PageAnswers ==
  {[status |-> s, products |-> <<>>] : s \in {"throw", "notOk"}}
    \cup {[status |-> "ok", products |-> ps] :
            ps \in UNION {[1..n -> Products] : n \in 0..MaxProducts}}

\* variants.find(v => v.available) || variants[0]
FirstAvailable(vs) ==
  IF \E i \in 1..Len(vs) : vs[i].available
  THEN vs[CHOOSE i \in 1..Len(vs) : vs[i].available /\ \A j \in 1..(i - 1) : ~vs[j].available]
  ELSE IF vs # <<>> THEN vs[1] ELSE NoVariant

\* words.filter(w => title.includes(w)).length; every score of one call is
\* this count divided by the same words.length
Score(title, words) == Cardinality({k \in 1..Len(words) : Includes(title, words[k])})

\* the loop over product.variants when an item name was given
RECURSIVE BestMatch(_, _, _, _, _)
BestMatch(vs, i, lowerName, best, bestScore) ==
  IF i > Len(vs) THEN best
  ELSE
    LET title == ToLowerCase(vs[i].title)
        score == Score(title, SplitWs(lowerName))
    IN  IF Includes(title, lowerName) \/ Includes(lowerName, title) THEN vs[i]
        ELSE IF score > bestScore THEN BestMatch(vs, i + 1, lowerName, vs[i], score)
        ELSE BestMatch(vs, i + 1, lowerName, best, bestScore)

\* the loop over data.products of one page of the catalog scan
RECURSIVE ScanPage(_, _, _)
ScanPage(ps, i, lowerName) ==
  IF i > Len(ps) THEN NoVariant
  ELSE IF /\ Includes(ToLowerCase(ps[i].title), lowerName)
          /\ FirstAvailable(ps[i].variants) # NoVariant
  THEN FirstAvailable(ps[i].variants)
  ELSE ScanPage(ps, i + 1, lowerName)

\* if (variantId)
resolveVariant_given_never(variantId) == FALSE
resolveVariant_given(variantId) == variantId # ""

Request(v, url) == [v EXCEPT !.sent = Append(@, url)]
Strategy(v, s) == [v EXCEPT !.tried = @ \cup {s}]

\* what follows strategy 1: strategies 2 and 3 run only with an item name
AfterProductJson(v) ==
  IF v.config.itemName # <<>> THEN [v EXCEPT !.pc = "search"]
  ELSE [v EXCEPT !.pc = "done", !.ret = Null]

\* resolveVariant(config) up to its first request
resolveVariant_enter ==
  /\ variant.pc = "call"
  /\ variant' =
       IF resolveVariant_given(variant.config.variantId)
       THEN [variant EXCEPT !.pc = "done", !.ret = variant.config.variantId]
       ELSE IF variant.config.productUrl
       THEN [variant EXCEPT !.pc = "productJson"]
       ELSE AfterProductJson(variant)
  /\ UNCHANGED exceptVariant

\* Strategy 1: direct product.json
resolveVariant_productJson ==
  /\ variant.pc = "productJson"
  /\ \E res \in ProductAnswers :
       LET v == Strategy(Request(variant, "product.json"), 1)
           name == v.config.itemName
       IN  variant' =
             IF res.status = "ok" /\ Len(res.variants) > 0
             THEN LET pick == IF name # <<>>
                              THEN BestMatch(res.variants, 1, ToLowerCase(name),
                                             res.variants[1], 0)
                              ELSE FirstAvailable(res.variants)
                  IN  [v EXCEPT !.pc = "done", !.offered = res.variants,
                                 !.picked = pick, !.ret = ToString(pick.id)]
             ELSE AfterProductJson(v)
  /\ UNCHANGED exceptVariant

\* Strategy 2: search API, first request
resolveVariant_search ==
  /\ variant.pc = "search"
  /\ \E res \in SearchAnswers :
       LET v == Strategy(Request(variant, "suggest.json"), 2)
       IN  variant' =
             IF res.status = "ok" /\ res.products > 0
             THEN [v EXCEPT !.pc = "match"]
             ELSE [v EXCEPT !.pc = "scan"]
  /\ UNCHANGED exceptVariant

\* Strategy 2: product data of the first search result
resolveVariant_match ==
  /\ variant.pc = "match"
  /\ \E res \in ProductAnswers :
       LET v == Request(variant, "match.json")
       IN  variant' =
             IF res.status = "ok" /\ Len(res.variants) > 0
             THEN [v EXCEPT !.pc = "done", !.picked = res.variants[1],
                            !.ret = ToString(res.variants[1].id)]
             ELSE [v EXCEPT !.pc = "scan"]
  /\ UNCHANGED exceptVariant

\* Strategy 3: one page of the catalog scan
resolveVariant_scan ==
  /\ variant.pc = "scan"
  /\ \E res \in PageAnswers :
       LET v == Strategy(Request(variant, "products.json"), 3)
           found == ScanPage(res.products, 1, ToLowerCase(v.config.itemName))
       IN  variant' =
             IF res.status # "ok" \/ res.products = <<>>
             THEN [v EXCEPT !.pc = "done", !.ret = Null]
             ELSE IF found # NoVariant
             THEN [v EXCEPT !.pc = "done", !.picked = found, !.ret = ToString(found.id)]
             ELSE IF v.page < MaxPages
             THEN [v EXCEPT !.page = @ + 1]
             ELSE [v EXCEPT !.pc = "done", !.ret = Null]
  /\ UNCHANGED exceptVariant

VariantInit ==
  /\ \E id \in {"", "41"}, productUrl \in BOOLEAN, itemName \in ItemNames :
       variant = [pc     |-> "call",
                  config |-> [variantId |-> id, productUrl |-> productUrl,
                              itemName |-> itemName],
                  page   |-> 1,
                  sent   |-> <<>>,
                  tried  |-> {},
                  offered |-> <<>>,
                  picked |-> NoVariant,
                  ret    |-> Pending]
  /\ SessionIdle /\ FleetIdle
  /\ RunnerIdle /\ ProxyManagerIdle /\ JarIdle /\ FcIdle
  /\ JiggerIdle /\ QueueIdle /\ EngineIdle /\ RaceIdle
  /\ OthersIdle

VariantNext ==
  \/ resolveVariant_enter
  \/ resolveVariant_productJson
  \/ resolveVariant_search
  \/ resolveVariant_match
  \/ resolveVariant_scan

VariantSpec == VariantInit /\ [][VariantNext]_vars

\* C16: a call with a non-empty variantId returns exactly that id, having
\* sent no request and entered no search strategy, whatever productUrl and
\* itemName are.
C16_GivenVariantIdShortCircuits ==
  (~VariantIdle /\ variant.config.variantId # "" /\ variant.pc # "call") =>
     /\ variant.pc = "done"
     /\ variant.ret = variant.config.variantId
     /\ variant.sent = <<>>
     /\ variant.tried = {}

C16_Witness ==
  /\ ~VariantIdle
  /\ variant.pc = "done"
  /\ variant.config.variantId # ""
  /\ variant.config.productUrl
  /\ variant.config.itemName # <<>>
  /\ variant.ret = variant.config.variantId

----------------------------------------------------------------------------
(* FastCheckout.handleQueueIfPresent as called by createCheckout            *)
(* (src/fast-checkout.js): the checkout page, the backup sessions, the      *)
(* polling loop and the body handed to the token extraction.                *)

MaxPolls == 2
BackupAttempts == 3

\* the strings the code looks for in a body
M_queue    == <<"q", "u", "e", "u", "e">>
M_throttle == <<"t", "h", "r", "o", "t", "t", "l", "e">>
M_checkout == <<"c", "h", "e", "c", "k", "o", "u", "t", "_", "q", "u", "e", "u", "e">>
M_Queue    == <<"S", "h", "o", "p", "i", "f", "y", ".", "C", "h", "e", "c", "k", "o", "u", "t", ".", "Q", "u", "e", "u", "e">>
M_poll     == <<"p", "o", "l", "l", "Q", "u", "e", "u", "e">>
M_line     == <<"Y", "o", "u", " ", "a", "r", "e", " ", "i", "n", " ", "l", "i", "n", "e">>

\* the queue detector at the head of handleQueueIfPresent
QueueMarkers == {M_queue, M_throttle, M_checkout, M_Queue, M_poll, M_line}

\* A body is the pieces of text it is made of, and whether it parses as
\* JSON ("json": without url, "redirect": with url or checkout_url).
Bodies(kinds) == {[kind |-> k, text |-> t] :
                    k \in kinds, t \in {{}} \cup {{m} : m \in QueueMarkers}}
NoBody == [kind |-> "none", text |-> {}]

\* body.includes(m)
BodyIncludes(body, m) == \E piece \in body.text : Includes(piece, m)

isQueue(body) == \E m \in QueueMarkers : BodyIncludes(body, m)

\* the test a backup session and a re-request of the page are put to
Bypassed(body) ==
  ~BodyIncludes(body, M_queue) /\ ~BodyIncludes(body, M_throttle)
    /\ ~BodyIncludes(body, M_line)

\* the test a poll answer that is not JSON is put to
PollPassed(body) ==
  ~BodyIncludes(body, M_queue) /\ ~BodyIncludes(body, M_throttle)

NoQueueReturn == [body |-> NoBody, queued |-> FALSE, from |-> "none"]
QueueReturn(q, body, queued, from) ==
  [q EXCEPT !.pc = "returned", !.ret = [body |-> body, queued |-> queued, from |-> from]]

\* backupResults.find(r => r.bypassed)
FirstBypassed(results) ==
  IF \E b \in 1..BackupAttempts : results[b].bypassed
  THEN results[CHOOSE b \in 1..BackupAttempts :
                 results[b].bypassed /\ \A c \in 1..(b - 1) : ~results[c].bypassed]
  ELSE [bypassed |-> FALSE, body |-> NoBody]

\* createCheckout loads the checkout page; handleQueueIfPresent reads it
handleQueueIfPresent ==
  /\ queue.pc = "page"
  /\ \E body \in Bodies({"html"}), pollUrl \in BOOLEAN :
       queue' = IF ~isQueue(body)
                THEN QueueReturn(queue, body, FALSE, "page")
                ELSE [queue EXCEPT !.pc = "race", !.body = body, !.pollUrl = pollUrl]
  /\ UNCHANGED exceptQueue

\* backup session b gets its answer, or its request throws
backup_response(b) ==
  /\ queue.pc = "race"
  /\ queue.backups[b] = "pending"
  /\ \/ \E body \in Bodies({"html"}) :
          queue' = [queue EXCEPT !.backups[b] = "settled",
                      !.results[b] = IF Bypassed(body)
                                     THEN [bypassed |-> TRUE, body |-> body]
                                     ELSE [bypassed |-> FALSE, body |-> NoBody]]
     \/ queue' = [queue EXCEPT !.backups[b] = "settled"]
  /\ UNCHANGED exceptQueue

\* Promise.all(backupPromises) has settled
backup_race ==
  /\ queue.pc = "race"
  /\ \A b \in 1..BackupAttempts : queue.backups[b] = "settled"
  /\ queue' = IF FirstBypassed(queue.results).bypassed
              THEN QueueReturn(queue, FirstBypassed(queue.results).body, TRUE, "backup")
              ELSE [queue EXCEPT !.pc = "poll"]
  /\ UNCHANGED exceptQueue

\* one round of the polling loop on the poll url
poll_pollUrl ==
  /\ queue.pc = "poll"
  /\ queue.pollUrl
  /\ queue.polls < MaxPolls
  /\ LET q == [queue EXCEPT !.polls = @ + 1]
     IN  \/ queue' = q    \* the request throws, or the status is not 200
         \/ \E pollBody \in Bodies({"html", "json", "redirect"}) :
              queue' = IF pollBody.kind = "redirect"
                       THEN [q EXCEPT !.pc = "redirect", !.pollBody = pollBody]
                       ELSE IF pollBody.kind = "html" /\ PollPassed(pollBody)
                       THEN QueueReturn(q, pollBody, TRUE, "poll")
                       ELSE q
  /\ UNCHANGED exceptQueue

\* the request of the url the poll answer named
poll_redirect ==
  /\ queue.pc = "redirect"
  /\ \/ \E body \in Bodies({"html"}) : queue' = QueueReturn(queue, body, TRUE, "redirect")
     \/ queue' = IF PollPassed(queue.pollBody)
                 THEN QueueReturn(queue, queue.pollBody, TRUE, "poll")
                 ELSE [queue EXCEPT !.pc = "poll"]
  /\ UNCHANGED exceptQueue

\* one round of the polling loop without a poll url: the page again
poll_retry ==
  /\ queue.pc = "poll"
  /\ ~queue.pollUrl
  /\ queue.polls < MaxPolls
  /\ LET q == [queue EXCEPT !.polls = @ + 1]
     IN  \/ \E retryBody \in Bodies({"html"}) :
              queue' = IF Bypassed(retryBody)
                       THEN QueueReturn(q, retryBody, TRUE, "retry")
                       ELSE q
         \/ queue' = q
  /\ UNCHANGED exceptQueue

\* Date.now() - start >= maxWait at the head of the loop
poll_timeout ==
  /\ queue.pc = "poll"
  /\ queue.polls >= 1
  /\ queue' = QueueReturn(queue, queue.body, FALSE, "page")
  /\ UNCHANGED exceptQueue

\* createCheckout: extractAuthToken(pageBody) ... return checkoutUrl;
\* the queued flag of the result is not read
createCheckout_extract ==
  /\ queue.pc = "returned"
  /\ queue' = [queue EXCEPT !.pc = "done", !.pageBody = queue.ret.body,
                            !.checkoutUrl = TRUE]
  /\ UNCHANGED exceptQueue

QueueInit ==
  /\ queue = [pc       |-> "page",
              body     |-> NoBody,
              pollUrl  |-> FALSE,
              backups  |-> [b \in 1..BackupAttempts |-> "pending"],
              results  |-> [b \in 1..BackupAttempts |->
                              [bypassed |-> FALSE, body |-> NoBody]],
              polls    |-> 0,
              pollBody |-> NoBody,
              ret      |-> NoQueueReturn,
              pageBody |-> NoBody,
              checkoutUrl |-> FALSE]
  /\ SessionIdle /\ FleetIdle
  /\ RunnerIdle /\ ProxyManagerIdle /\ JarIdle /\ FcIdle
  /\ JiggerIdle /\ VariantIdle /\ EngineIdle /\ RaceIdle
  /\ OthersIdle

QueueNext ==
  \/ handleQueueIfPresent
  \/ \E b \in 1..BackupAttempts : backup_response(b)
  \/ backup_race
  \/ poll_pollUrl
  \/ poll_redirect
  \/ poll_retry
  \/ poll_timeout
  \/ createCheckout_extract

QueueSpec == QueueInit /\ [][QueueNext]_vars

\* C17: the body treated as "queue passed" and handed to the auth-token
\* extraction is a response later than the queue page and contains none of
\* the markers of the queue detector.
C17_PassedBodyHasNoQueueMarker ==
  (~QueueIdle /\ queue.pc = "done" /\ queue.ret.queued) =>
     /\ queue.ret.from # "page"
     /\ queue.pageBody = queue.ret.body
     /\ ~isQueue(queue.pageBody)

\* the polling loop has run out with the queue page still in hand
QueueTimedOut ==
  /\ queue.ret.from = "page"
  /\ isQueue(queue.ret.body)
  /\ queue.polls >= 1

\* C25: when the polling ends at its ceiling with the queue markers still
\* present, the queue page is not handed to the token extraction as if it
\* were the checkout page and createCheckout does not return a checkout URL
\* for the run to go on to shipping, rate and payment with.
C25_QueueTimeoutEndsAttempt ==
  (~QueueIdle /\ queue.pc = "done" /\ QueueTimedOut) =>
     /\ queue.pageBody = NoBody
     /\ ~queue.checkoutUrl

----------------------------------------------------------------------------
(* FastCheckout.preCheckout (src/fast-checkout.js): successive warm-up      *)
(* calls on one session and the cookies its jar holds after each.           *)

MaxWarm == 2

\* this.jar.clear() at the head of preCheckout
preCheckout_clear_kept(store) == store
preCheckout_clear(store) == CookieJar_clear

\* the lists of set-cookie headers a response can carry
HeaderLists ==
  UNION {[1..n -> {SetCookie(c) : c \in Cookies}] : n \in 0..MaxHeaders}

\* request(): if (setCookies) jar.update(url, setCookies)
Received(store, headers) ==
  IF headers = <<>> THEN store
  ELSE CookieJar_update(store, [host |-> StoreHost], headers)

\* the names of the cookies a store holds for a domain
Names(store, domain) ==
  IF DomainIndex(store, domain) = 0 THEN {}
  ELSE {store[DomainIndex(store, domain)].cookies[i].name :
          i \in 1..Len(store[DomainIndex(store, domain)].cookies)}

\* preCheckout returns
Warmed(j, ok) ==
  [j EXCEPT !.pc = "ready", !.after = Append(@, j.store), !.ok = Append(@, ok)]

\* preCheckout(config) up to its first request
preCheckout ==
  /\ jar.pc = "ready"
  /\ Len(jar.after) < MaxWarm
  /\ jar' = [jar EXCEPT !.pc = "home", !.store = preCheckout_clear(jar.store),
                        !.own = <<>>]
  /\ UNCHANGED exceptJar

\* Step 1: the store homepage; an error ends the call with success: false
preCheckout_home ==
  /\ jar.pc = "home"
  /\ \/ \E headers \in HeaderLists :
          jar' = [jar EXCEPT !.pc = "cart",
                             !.store = Received(jar.store, headers),
                             !.own = Received(jar.own, headers)]
     \/ jar' = Warmed(jar, FALSE)
  /\ UNCHANGED exceptJar

\* Step 2: /cart.js, errors swallowed
preCheckout_cart ==
  /\ jar.pc = "cart"
  /\ \/ \E headers \in HeaderLists :
          jar' = [jar EXCEPT !.pc = "checkout",
                             !.store = Received(jar.store, headers),
                             !.own = Received(jar.own, headers)]
     \/ jar' = [jar EXCEPT !.pc = "checkout"]
  /\ UNCHANGED exceptJar

\* Step 3: /checkout, errors swallowed; step 4 touches no cookie
preCheckout_checkout ==
  /\ jar.pc = "checkout"
  /\ \/ \E headers \in HeaderLists :
          jar' = Warmed([jar EXCEPT !.store = Received(jar.store, headers),
                                    !.own = Received(jar.own, headers)], TRUE)
     \/ jar' = Warmed(jar, TRUE)
  /\ UNCHANGED exceptJar

\* a session that has run before: its jar holds what the store set then
WarmInit ==
  /\ \E headers \in HeaderLists :
       jar = [pc    |-> "ready",
              store |-> Received(<<>>, headers),
              own   |-> <<>>,
              after |-> <<>>,
              ok    |-> <<>>]
  /\ SessionIdle /\ FleetIdle
  /\ RunnerIdle /\ ProxyManagerIdle /\ FcIdle
  /\ JiggerIdle /\ VariantIdle /\ QueueIdle /\ EngineIdle /\ RaceIdle
  /\ OthersIdle

WarmNext ==
  \/ preCheckout
  \/ preCheckout_home
  \/ preCheckout_cart
  \/ preCheckout_checkout

WarmSpec == WarmInit /\ [][WarmNext]_vars

\* C18 as stated: for every domain, every cookie held after one preCheckout
\* call is still held after the next call on the same session.
C18_SecondWarmKeepsCookies ==
  \A k \in 2..Len(jar.after) : \A d \in {StoreHost, ShopHost, OtherHost} :
    Names(jar.after[k - 1], d) \subseteq Names(jar.after[k], d)

\* C18 amended: the cookies held after a second preCheckout call are those
\* the store set in answer to that call's own requests, and no others.
C18_SecondWarmHoldsItsOwnCookies ==
  (jar.pc = "ready" /\ Len(jar.after) >= 2) =>
     /\ jar.store = jar.own
     /\ jar.after[Len(jar.after)] = jar.own

\* a second call has returned and a cookie held after the first is gone
C18_Witness ==
  /\ jar.pc = "ready"
  /\ Len(jar.after) = 2
  /\ jar.ok = <<TRUE, TRUE>>
  /\ jar.store # <<>>
  /\ ~(Names(jar.after[1], StoreHost) \subseteq Names(jar.after[2], StoreHost))

----------------------------------------------------------------------------
(* HttpEngine (src/http-engine.js): the HTTP/2 sessions of one engine.      *)
(* A session is "connecting" from http2.connect() to its connect event,     *)
(* "open" from then on and "closed" after its close or error event.         *)

MaxSessions == 3
MaxCalls == 2

Domains == {"store", "deposit.shopifycs.com"}
NoSession == 0

NoH2Call == [kind |-> "none", domain |-> "", pc |-> "idle", session |-> NoSession]

\* if (!session || session.closed || session.destroyed)
requestH2_mustCreate(e, domain) ==
  \/ e.h2Sessions[domain] = NoSession
  \/ e.sessions[e.h2Sessions[domain]].state = "closed"

\* http2.connect(): a new session, not yet connected
createH2Session(e, c, kind, domain) ==
  [e EXCEPT !.sessions = Append(@, [domain |-> domain, state |-> "connecting"]),
            !.calls[c] = [kind |-> kind, domain |-> domain, pc |-> "connecting",
                          session |-> Len(e.sessions) + 1]]

\* a call to _requestH2 up to its first await or to session.request()
HttpEngine_requestH2_enter ==
  \E c \in 1..MaxCalls, domain \in Domains :
    /\ engine.pc = "ready"
    /\ engine.calls[c].pc = "idle"
    /\ IF requestH2_mustCreate(engine, domain)
         THEN /\ Len(engine.sessions) < MaxSessions
              /\ engine' = createH2Session(engine, c, "request", domain)
         ELSE engine' = [engine EXCEPT !.calls[c] =
                [kind |-> "request", domain |-> domain, pc |-> "requesting",
                 session |-> engine.h2Sessions[domain]]]
    /\ UNCHANGED exceptEngine

\* a call to preConnect up to its await
HttpEngine_preConnect ==
  \E c \in 1..MaxCalls, domain \in Domains :
    /\ engine.pc = "ready"
    /\ engine.calls[c].pc = "idle"
    /\ Len(engine.sessions) < MaxSessions
    /\ engine' = createH2Session(engine, c, "preConnect", domain)
    /\ UNCHANGED exceptEngine

\* the connect event of a session: the awaiting caller stores it
createH2Session_connect ==
  \E c \in 1..MaxCalls :
    /\ engine.calls[c].pc = "connecting"
    /\ LET call == engine.calls[c] IN
       engine' = [engine EXCEPT
         !.sessions[call.session].state = "open",
         !.h2Sessions[call.domain] = call.session,
         !.calls[c] = IF call.kind = "request"
                        THEN [call EXCEPT !.pc = "requesting"]
                        ELSE NoH2Call]
    /\ UNCHANGED exceptEngine

\* the error event (or the connect timeout) of a connecting session:
\* the entry of its domain is deleted, the caller falls back or returns false
createH2Session_error ==
  \E c \in 1..MaxCalls :
    /\ engine.calls[c].pc = "connecting"
    /\ LET call == engine.calls[c] IN
       engine' = [engine EXCEPT
         !.sessions[call.session].state = "closed",
         !.h2Sessions[call.domain] = NoSession,
         !.calls[c] = NoH2Call]
    /\ UNCHANGED exceptEngine

\* the end event of a request stream
requestH2_end ==
  \E c \in 1..MaxCalls :
    /\ engine.calls[c].pc = "requesting"
    /\ engine.sessions[engine.calls[c].session].state = "open"
    /\ engine' = [engine EXCEPT !.calls[c] = NoH2Call]
    /\ UNCHANGED exceptEngine

\* the error event of a request stream
requestH2_error ==
  \E c \in 1..MaxCalls :
    /\ engine.calls[c].pc = "requesting"
    /\ engine' = [engine EXCEPT
         !.h2Sessions[engine.calls[c].domain] = NoSession,
         !.calls[c] = NoH2Call]
    /\ UNCHANGED exceptEngine

\* the close event of an open session
session_close ==
  \E s \in 1..Len(engine.sessions) :
    /\ engine.sessions[s].state = "open"
    /\ engine' = [engine EXCEPT
         !.sessions[s].state = "closed",
         !.h2Sessions[engine.sessions[s].domain] = NoSession]
    /\ UNCHANGED exceptEngine

\* destroy(): closes the sessions the map holds
HttpEngine_destroy ==
  /\ engine.pc = "ready"
  /\ \A c \in 1..MaxCalls : engine.calls[c].pc = "idle"
  /\ engine' = [engine EXCEPT
       !.pc = "destroyed",
       !.sessions = [s \in DOMAIN engine.sessions |->
          IF \E d \in Domains : engine.h2Sessions[d] = s
            THEN [engine.sessions[s] EXCEPT !.state = "closed"]
            ELSE engine.sessions[s]],
       !.h2Sessions = [d \in Domains |-> NoSession]]
  /\ UNCHANGED exceptEngine

EngineInit ==
  /\ engine = [pc |-> "ready",
               h2Sessions |-> [d \in Domains |-> NoSession],
               sessions |-> <<>>,
               calls |-> [c \in 1..MaxCalls |-> NoH2Call]]
  /\ SessionIdle /\ FleetIdle
  /\ RunnerIdle /\ ProxyManagerIdle /\ JarIdle /\ FcIdle
  /\ JiggerIdle /\ VariantIdle /\ QueueIdle /\ RaceIdle
  /\ OthersIdle

EngineNext ==
  \/ HttpEngine_requestH2_enter
  \/ HttpEngine_preConnect
  \/ createH2Session_connect
  \/ createH2Session_error
  \/ requestH2_end
  \/ requestH2_error
  \/ session_close
  \/ HttpEngine_destroy

EngineSpec == EngineInit /\ [][EngineNext]_vars

OpenSessions(domain) ==
  {s \in 1..Len(engine.sessions) :
     engine.sessions[s].domain = domain /\ engine.sessions[s].state = "open"}

\* C21: at every moment the engine has at most one open HTTP/2 connection
\* per domain.
C21_OneOpenConnectionPerDomain ==
  ~EngineIdle => \A d \in Domains : Cardinality(OpenSessions(d)) <= 1

----------------------------------------------------------------------------
(* The backup sessions of handleQueueIfPresent (src/fast-checkout.js) and   *)
(* the jar FastCheckout.request uses for each of them.  Jars are told apart *)
(* by identity: SessionJar is the jar the session had when the queue page   *)
(* arrived, jar b the `new CookieJar()` of backup session b.  A cookie is   *)
(* named after the response that set it: b for the answer to the request of *)
(* backup session b, SessionCookie for everything set before the queue.     *)

SessionJar == 0
SessionCookie == 0

Backups == 1..BackupAttempts

\* the part of one backup closure that runs before its first await:
\* const backupJar = new CookieJar(); const origJar = this.jar; this.jar = backupJar
SpawnBackup(r, b) ==
  [r EXCEPT !.origJar[b] = r.thisJar, !.thisJar = b, !.task[b] = "sleeping"]

\* for (let b = 0; b < backupAttempts; b++) backupPromises.push((async () => ...)())
RECURSIVE SpawnAll(_, _)
SpawnAll(r, b) ==
  IF b > BackupAttempts THEN r ELSE SpawnAll(SpawnBackup(r, b), b + 1)

\* request(): with HTTP/2 the jar passed to the engine when the call is
\* made receives the cookies; with fetch it is this.jar when the answer is in
request_updatedJar(r, b) == IF r.useH2 THEN r.reqJar[b] ELSE r.thisJar

\* backupResults.find(r => r.bypassed)
Winners(r) == {b \in Backups : r.bypassed[b]}
Winner(r) == CHOOSE b \in Winners(r) : \A c \in Winners(r) : b <= c

\* the queue page is detected: the three closures start, then
\* const origJar = this.jar (line 336) and await Promise.all(...)
race_spawn ==
  /\ race.pc = "detected"
  /\ race' = LET r == SpawnAll(race, 1) IN
             [r EXCEPT !.pc = "racing", !.outerOrigJar = r.thisJar]
  /\ UNCHANGED exceptRace

\* the sleep of backup session b is over: it calls this.request(url)
race_request(b) ==
  /\ race.pc = "racing"
  /\ race.task[b] = "sleeping"
  /\ race' = [race EXCEPT !.task[b] = "requesting", !.reqJar[b] = race.thisJar]
  /\ UNCHANGED exceptRace

\* the answer to the request of backup session b
race_response(b) ==
  /\ race.pc = "racing"
  /\ race.task[b] = "requesting"
  /\ \E setCookie \in BOOLEAN, passed \in BOOLEAN :
       race' = [race EXCEPT
         !.task[b] = "settled",
         !.setCookie[b] = setCookie,
         !.jars[request_updatedJar(race, b)] =
             IF setCookie THEN @ \cup {b} ELSE @,
         !.bypassed[b] = passed,
         !.thisJar = IF passed THEN @ ELSE race.origJar[b]]
  /\ UNCHANGED exceptRace

\* the request of backup session b throws: catch (_) {} ; this.jar = origJar
race_throw(b) ==
  /\ race.pc = "racing"
  /\ race.task[b] = "requesting"
  /\ race' = [race EXCEPT !.task[b] = "settled", !.thisJar = race.origJar[b]]
  /\ UNCHANGED exceptRace

\* Promise.all has settled: the winning jar is adopted, or origJar restored
race_settle ==
  /\ race.pc = "racing"
  /\ \A b \in Backups : race.task[b] = "settled"
  /\ race' = [race EXCEPT
       !.pc = "done",
       !.thisJar = IF Winners(race) # {} THEN Winner(race) ELSE race.outerOrigJar]
  /\ UNCHANGED exceptRace

RaceInit ==
  /\ \E useH2 \in BOOLEAN, cookies \in {{}, {SessionCookie}} :
       race = [pc           |-> "detected",
               useH2        |-> useH2,
               thisJar      |-> SessionJar,
               jars         |-> [j \in {SessionJar} \cup Backups |->
                                   IF j = SessionJar THEN cookies ELSE {}],
               origJar      |-> [b \in Backups |-> SessionJar],
               outerOrigJar |-> SessionJar,
               task         |-> [b \in Backups |-> "unborn"],
               reqJar       |-> [b \in Backups |-> SessionJar],
               setCookie    |-> [b \in Backups |-> FALSE],
               bypassed     |-> [b \in Backups |-> FALSE]]
  /\ SessionIdle /\ FleetIdle
  /\ RunnerIdle /\ ProxyManagerIdle /\ JarIdle /\ FcIdle
  /\ JiggerIdle /\ VariantIdle /\ QueueIdle /\ EngineIdle
  /\ OthersIdle

RaceNext ==
  \/ race_spawn
  \/ \E b \in Backups : race_request(b)
  \/ \E b \in Backups : race_response(b)
  \/ \E b \in Backups : race_throw(b)
  \/ race_settle

RaceSpec == RaceInit /\ [][RaceNext]_vars

\* C26: when no backup session bypasses the queue, the session's jar after
\* the race is the jar it had before the queue was detected, with the
\* cookies that jar had then, in whatever order the backup sessions ran.
C26_OriginalJarRestoredAfterRace ==
  (~RaceIdle /\ race.pc = "done" /\ Winners(race) = {}) =>
     race.thisJar = SessionJar

\* C27: each backup session sends its request with its own fresh jar and its
\* response cookies go into that jar only; the jar adopted after a bypass
\* holds the cookies the bypassing response set.
C27_BackupUsesItsOwnJar ==
  ~RaceIdle =>
    /\ \A b \in Backups : race.task[b] \in {"requesting", "settled"} =>
         /\ race.reqJar[b] = b
         /\ \A j \in DOMAIN race.jars : b \in race.jars[j] => j = b
    /\ (race.pc = "done" /\ Winners(race) # {}) =>
         /\ race.thisJar = Winner(race)
         /\ race.setCookie[Winner(race)] => Winner(race) \in race.jars[race.thisJar]

\* resolveVariant has returned the id of a variant it found itself
ResolvedBySearch ==
  /\ ~VariantIdle
  /\ variant.pc = "done"
  /\ variant.config.variantId = ""
  /\ variant.ret # Null

\* C28: without a caller-supplied id, the id resolveVariant returns is that
\* of a variant whose available flag is true (and null is returned when no
\* strategy yields one).
C28_ResolvedVariantIsAvailable ==
  ResolvedBySearch => (variant.picked # NoVariant /\ variant.picked.available)

\* C29: in the product-data strategy with an item name, when some variant
\* of the product has a title equal to the item name, the variant selected
\* has that title, wherever it stands in the list and whatever the other
\* variants match.
C29_ExactTitleWins ==
  (/\ ResolvedBySearch
   /\ variant.tried = {1}
   /\ variant.config.itemName # <<>>
   /\ \E i \in 1..Len(variant.offered) :
        variant.offered[i].title = variant.config.itemName)
  => variant.picked.title = variant.config.itemName

----------------------------------------------------------------------------
(* The proxies FleetRunner.launch (src/fleet-runner.js) and                 *)
(* TaskRunner.runMulti (src/task-runner.js) bind to the tasks they create.  *)

MaxLaunch == 3
MaxList == 2

ProxyNames == {"p1", "p2", "p3"}
NoProxy == "(none)"

ProxyLists == UNION {[1..n -> ProxyNames] : n \in 0..MaxList}

\* every task is bound to the first proxy of the list
AssignedProxy_first(proxyList, i) == proxyList[1]

\* proxyList[i % proxyList.length], i counted from 0
AssignedProxy(proxyList, i) == proxyList[(i % Len(proxyList)) + 1]

\* one turn of the loop that creates task i: the proxy agent is set unless
\* the list is empty or new HttpsProxyAgent(proxyUrl) throws
Bind(a, agentThrows) ==
  [a EXCEPT
     !.i = @ + 1,
     !.bound = Append(@, IF a.proxyList = <<>> \/ agentThrows
                         THEN NoProxy
                         ELSE AssignedProxy(a.proxyList, a.i)),
     !.pc = IF a.i + 1 = a.count THEN "done" ELSE @]

\* FleetRunner.launch: for (let i = 0; i < users.length; i++)
launch_assign ==
  /\ assign.pc = "launch"
  /\ \E agentThrows \in BOOLEAN : assign' = Bind(assign, agentThrows)
  /\ UNCHANGED exceptAssign

\* TaskRunner.runMulti: for (let i = 0; i < taskCount; i++)
runMulti_assign ==
  /\ assign.pc = "runMulti"
  /\ \E agentThrows \in BOOLEAN : assign' = Bind(assign, agentThrows)
  /\ UNCHANGED exceptAssign

AssignInit ==
  /\ \E entry \in {"launch", "runMulti"}, count \in 1..MaxLaunch,
        proxyList \in ProxyLists :
       assign = [pc |-> entry, count |-> count, proxyList |-> proxyList,
                 i |-> 0, bound |-> <<>>]
  /\ SessionIdle /\ FleetIdle
  /\ RunnerIdle /\ ProxyManagerIdle /\ JarIdle /\ FcIdle
  /\ JiggerIdle /\ VariantIdle /\ QueueIdle /\ EngineIdle /\ RaceIdle
  /\ monitor = NotInUse /\ harvester = NotInUse

AssignNext ==
  \/ launch_assign
  \/ runMulti_assign

AssignSpec == AssignInit /\ [][AssignNext]_vars

AssignIdle == assign = NotInUse

Shared(bound) ==
  \E i, j \in 1..Len(bound) : i # j /\ bound[i] # NoProxy /\ bound[i] = bound[j]

Distinct(list) == \A i, j \in 1..Len(list) : i # j => list[i] # list[j]

----------------------------------------------------------------------------
(* The shipping address of one run: the launcher builds the run's config    *)
(* (FleetRunner._runSingleBot, TaskRunner.runMulti), FastCheckout.run hands *)
(* the address to graphqlCheckout and, falling back, to                     *)
(* submitShippingAddress (src/fast-checkout.js).                            *)

\* the fields jigAddress reads
NameFields == {"firstName", "lastName"}

\* graphqlCheckout: const jiggedDetails = this.jigAddress(checkoutDetails, taskIndex)
graphqlCheckout_jiggedDetails(checkoutDetails, taskIndex) ==
  jigAddress(checkoutDetails, taskIndex)

\* the per-index transform of the launcher: AddressJigger.jig under
\* FleetRunner, FastCheckout.jigAddress under TaskRunner
Transform(launcher, address, index) ==
  IF launcher = "fleet" THEN AddressJigger_jig(address, index)
  ELSE jigAddress(address, index)

\* _runSingleBot: checkoutDetails: AddressJigger.jig(...), taskIndex: 0
runSingleBot_config ==
  /\ jigger.pc = "launch"
  /\ jigger.launcher = "fleet"
  /\ jigger' = [jigger EXCEPT !.pc = "run",
                  !.checkoutDetails = AddressJigger_jig(jigger.address, jigger.index),
                  !.taskIndex = 0]
  /\ UNCHANGED exceptJigger

\* runMulti: taskConfig = { ...config, taskIndex: i }
runMulti_config ==
  /\ jigger.pc = "launch"
  /\ jigger.launcher = "task"
  /\ jigger' = [jigger EXCEPT !.pc = "run",
                  !.checkoutDetails = jigger.address,
                  !.taskIndex = jigger.index]
  /\ UNCHANGED exceptJigger

\* run, step 1.5: graphqlCheckout({checkoutDetails: this.jigAddress(
\* checkoutDetails, taskIndex), taskIndex}), which sends its jiggedDetails
run_graphqlCheckout ==
  /\ jigger.pc = "run"
  /\ jigger' = [jigger EXCEPT !.pc = "rest",
                  !.gql = graphqlCheckout_jiggedDetails(
                            jigAddress(jigger.checkoutDetails, jigger.taskIndex),
                            jigger.taskIndex)]
  /\ UNCHANGED exceptJigger

\* run, step 3: submitShippingAddress(currentUrl, this.jigAddress(
\* checkoutDetails, taskIndex))
run_submitShippingAddress ==
  /\ jigger.pc = "rest"
  /\ jigger' = [jigger EXCEPT !.pc = "sent",
                  !.form = jigAddress(jigger.checkoutDetails, jigger.taskIndex)]
  /\ UNCHANGED exceptJigger

AddressInit ==
  /\ \E launcher \in {"fleet", "task"}, f \in NameFields,
        s \in Strings(MaxStrLen), index \in 0..MaxIndex :
       jigger = [pc              |-> "launch",
                 launcher        |-> launcher,
                 address         |-> [SampleAddress EXCEPT ![f] = s],
                 index           |-> index,
                 checkoutDetails |-> NoAddress,
                 taskIndex       |-> 0,
                 gql             |-> NoAddress,
                 form            |-> NoAddress]
  /\ SessionIdle /\ FleetIdle
  /\ RunnerIdle /\ ProxyManagerIdle /\ JarIdle /\ FcIdle
  /\ VariantIdle /\ QueueIdle /\ EngineIdle /\ RaceIdle
  /\ OthersIdle

AddressNext ==
  \/ runSingleBot_config
  \/ runMulti_config
  \/ run_graphqlCheckout
  \/ run_submitShippingAddress

AddressSpec == AddressInit /\ [][AddressNext]_vars

\* C35: for every index, the address a run sends is the launcher's per-index
\* transform applied exactly once to the configured address, on the GraphQL
\* path and on the form-based path alike, so both paths send the same
\* address (under FleetRunner and under TaskRunner).
C35_BothPathsSendOnceJiggedAddress ==
  (~JiggerIdle /\ jigger.pc = "sent") =>
     /\ jigger.form = Transform(jigger.launcher, jigger.address, jigger.index)
     /\ jigger.gql = jigger.form

----------------------------------------------------------------------------
(* StockMonitor (src/stock-monitor.js): start, the setInterval callback and *)
(* stop.  A poll is a pollFn() call that has not come back yet; polling     *)
(* counts the callbacks waiting for pollFn(), alerting those waiting for    *)
(* _sendDiscordAlert().  emitted, stopCalled and emittedAfterStop are       *)
(* history: the "stock-found" events so far, whether the operator has       *)
(* called stop(), and whether an event was emitted after that.              *)

MaxTimerTicks == 4
MaxInFlight   == 3

MonitorIdle == monitor = NotInUse

\* stop(): clearInterval, interval = null, running = false
StockMonitor_stopped(m) == [m EXCEPT !.interval = FALSE, !.running = FALSE]

\* this.emit("stock-found", result)
EmitStockFound(m) ==
  [m EXCEPT !.emitted = @ + 1, !.emittedAfterStop = @ \/ m.stopCalled]

\* start(config) up to `await pollFn()` of the initial check (the branch for
\* a monitor that is already running needs a second start() call)
StockMonitor_start ==
  /\ monitor.pc = "new"
  /\ monitor' = [monitor EXCEPT !.pc = "initial", !.running = TRUE]
  /\ UNCHANGED exceptMonitor

\* the initial check comes back: in stock, emit and stop and return;
\* otherwise setInterval(...)
start_initialResult ==
  /\ monitor.pc = "initial"
  /\ \E inStock \in BOOLEAN :
       monitor' =
         IF inStock
         THEN [StockMonitor_stopped(EmitStockFound(monitor)) EXCEPT !.pc = "returned"]
         ELSE [monitor EXCEPT !.pc = "monitoring", !.interval = TRUE]
  /\ UNCHANGED exceptMonitor

\* the interval callback starts: if (!this.running) return; past the max
\* duration stop() and emit "timeout"; otherwise pollCount++, await pollFn()
interval_tick ==
  /\ monitor.pc = "monitoring"
  /\ monitor.interval
  /\ monitor.running
  /\ monitor.ticks < MaxTimerTicks
  /\ monitor.polling + monitor.alerting < MaxInFlight
  /\ \E expired \in BOOLEAN :
       monitor' =
         IF expired
         THEN [StockMonitor_stopped(monitor) EXCEPT !.ticks = @ + 1, !.timedOut = TRUE]
         ELSE [monitor EXCEPT !.ticks = @ + 1, !.polling = @ + 1]
  /\ UNCHANGED exceptMonitor

\* the callback of a stopped monitor whose timer start() set after stop():
\* if (!this.running) return
interval_tickStopped ==
  /\ monitor.pc = "monitoring"
  /\ monitor.interval
  /\ ~monitor.running
  /\ monitor.ticks < MaxTimerTicks
  /\ monitor' = [monitor EXCEPT !.ticks = @ + 1]
  /\ UNCHANGED exceptMonitor

\* await pollFn() of one callback comes back (or throws): in stock, the
\* callback goes on to await this._sendDiscordAlert(...)
poll_result ==
  /\ monitor.polling > 0
  /\ \E r \in {"inStock", "outOfStock", "throw"} :
       monitor' =
         IF r = "inStock"
         THEN [monitor EXCEPT !.polling = @ - 1, !.alerting = @ + 1]
         ELSE [monitor EXCEPT !.polling = @ - 1]
  /\ UNCHANGED exceptMonitor

\* the alert is sent: this.stop(); this.emit("stock-found", result)
poll_stockFound ==
  /\ monitor.alerting > 0
  /\ monitor' = [EmitStockFound(StockMonitor_stopped(monitor)) EXCEPT !.alerting = @ - 1]
  /\ UNCHANGED exceptMonitor

\* the operator calls stop() (POST /api/monitor/stop)
StockMonitor_stop ==
  /\ monitor.pc \in {"initial", "monitoring"}
  /\ ~monitor.stopCalled
  /\ monitor' = [StockMonitor_stopped(monitor) EXCEPT !.stopCalled = TRUE]
  /\ UNCHANGED exceptMonitor

\* new StockMonitor()
MonitorInit ==
  /\ monitor = [pc |-> "new", running |-> FALSE, interval |-> FALSE,
                ticks |-> 0, polling |-> 0, alerting |-> 0, timedOut |-> FALSE,
                emitted |-> 0, stopCalled |-> FALSE, emittedAfterStop |-> FALSE]
  /\ SessionIdle /\ FleetIdle
  /\ RunnerIdle /\ ProxyManagerIdle /\ JarIdle /\ FcIdle
  /\ JiggerIdle /\ VariantIdle /\ QueueIdle /\ EngineIdle /\ RaceIdle
  /\ assign = NotInUse /\ harvester = NotInUse

MonitorNext ==
  \/ StockMonitor_start
  \/ start_initialResult
  \/ interval_tick
  \/ interval_tickStopped
  \/ poll_result
  \/ poll_stockFound
  \/ StockMonitor_stop

MonitorSpec == MonitorInit /\ [][MonitorNext]_vars

\* C39: "stock-found" is emitted at most once per start() and never after
\* stop() has been called, also when polls overlap because a poll takes
\* longer than the poll interval.
C39_StockFoundOnceAndNotAfterStop ==
  ~MonitorIdle => (monitor.emitted <= 1 /\ ~monitor.emittedAfterStop)

----------------------------------------------------------------------------
(* CaptchaHarvester token bank (src/unnamed/part_000): the _apiSolveLoop of *)
(* each window, getToken, _pruneExpired, stop.  A bank entry is             *)
(* [id, type, timestamp]; id numbers the entries in the order they were     *)
(* banked.  handed and sawFull are history: the id and age of every token   *)
(* getToken has returned, and whether a window has found the bank full.     *)

NumWindows == 2
MaxSolves  == 3
MaxGets    == 2
MaxClock   == 3

\* const TOKEN_MAX_AGE_MS = 100000
TOKEN_MAX_AGE_MS == 100000

\* const MAX_BANK_SIZE = 20
MAX_BANK_SIZE == 20

\* Date.now() advances in steps of half the maximum token age
ClockStep == TOKEN_MAX_AGE_MS \div 2

\* config.type of the harvester, and the types a checkout asks for
HarvestType == "recaptchav2"
TokenTypes  == {"recaptchav2", "hcaptcha"}

HarvesterIdle == harvester = NotInUse

RECURSIVE Filter(_, _)
\* tokenBank.filter(t => (now - t.timestamp) < TOKEN_MAX_AGE_MS)
Filter(bank, now) ==
  IF bank = <<>> THEN <<>>
  ELSE IF now - Head(bank).timestamp < TOKEN_MAX_AGE_MS
       THEN <<Head(bank)>> \o Filter(Tail(bank), now)
       ELSE Filter(Tail(bank), now)

\* if (this.tokenBank.length >= MAX_BANK_SIZE) { sleep; continue }
apiSolveLoop_full(bank) == Len(bank) >= MAX_BANK_SIZE

\* tokenBank.findIndex(t => t.type === type): 0 when there is none
FindIndex(bank, type) ==
  IF \E i \in DOMAIN bank : bank[i].type = type
  THEN CHOOSE i \in DOMAIN bank :
         bank[i].type = type /\ \A j \in 1..(i - 1) : bank[j].type # type
  ELSE 0

\* tokenBank.splice(idx, 1)
Splice(bank, idx) == SubSeq(bank, 1, idx - 1) \o SubSeq(bank, idx + 1, Len(bank))

\* the head of _apiSolveLoop's while loop in window w: leave when stopped,
\* sleep and come back when the bank is full, otherwise ask the providers
apiSolveLoop_enter(w) ==
  /\ harvester.pc = "running"
  /\ harvester.windows[w] = "loop"
  /\ harvester' =
       IF ~harvester.running THEN [harvester EXCEPT !.windows[w] = "ended"]
       ELSE IF apiSolveLoop_full(harvester.tokenBank)
       THEN [harvester EXCEPT !.sawFull = TRUE]
       ELSE [harvester EXCEPT !.windows[w] = "solving"]
  /\ UNCHANGED exceptHarvester

\* the providers of window w come back: with a token, which is banked with
\* the current time, or with nothing (or an error); then the sleeps
apiSolveLoop_solved(w) ==
  /\ harvester.pc = "running"
  /\ harvester.windows[w] = "solving"
  /\ \E token \in BOOLEAN :
       /\ token => harvester.solveCount < MaxSolves
       /\ harvester' =
            IF token
            THEN [harvester EXCEPT
                    !.windows[w] = "loop",
                    !.solveCount = @ + 1,
                    !.nextId = @ + 1,
                    !.tokenBank = Append(@, [id |-> harvester.nextId,
                                             type |-> HarvestType,
                                             timestamp |-> harvester.now])]
            ELSE [harvester EXCEPT !.windows[w] = "loop"]
  /\ UNCHANGED exceptHarvester

\* getToken(type): _pruneExpired(), findIndex, splice, return token.token
getToken ==
  /\ harvester.pc = "running"
  /\ Len(harvester.handed) < MaxGets
  /\ \E type \in TokenTypes :
       LET bank == Filter(harvester.tokenBank, harvester.now)
           idx  == FindIndex(bank, type)
       IN harvester' =
            IF idx = 0 THEN [harvester EXCEPT !.tokenBank = bank]
            ELSE [harvester EXCEPT
                    !.tokenBank = Splice(bank, idx),
                    !.handed = Append(@, [id  |-> bank[idx].id,
                                          age |-> harvester.now - bank[idx].timestamp])]
  /\ UNCHANGED exceptHarvester

\* setInterval(() => this._pruneExpired(), 10000)
pruneExpired ==
  /\ harvester.pc = "running"
  /\ harvester.running
  /\ Filter(harvester.tokenBank, harvester.now) # harvester.tokenBank
  /\ harvester' = [harvester EXCEPT !.tokenBank = Filter(@, harvester.now)]
  /\ UNCHANGED exceptHarvester

\* stop(): running = false, the prune timer cleared
CaptchaHarvester_stop ==
  /\ harvester.pc = "running"
  /\ harvester.running
  /\ harvester' = [harvester EXCEPT !.running = FALSE]
  /\ UNCHANGED exceptHarvester

\* time passes
ClockTick ==
  /\ harvester.pc = "running"
  /\ harvester.now < MaxClock * ClockStep
  /\ harvester' = [harvester EXCEPT !.now = @ + ClockStep]
  /\ UNCHANGED exceptHarvester

\* a running harvester whose windows are at the head of their loops, with
\* any number of tokens in the bank that were banked a moment ago
HarvesterInit ==
  /\ \E n \in 0..MAX_BANK_SIZE :
       harvester = [pc |-> "running", running |-> TRUE, now |-> 0,
                    tokenBank |-> [i \in 1..n |->
                                     [id |-> i, type |-> HarvestType, timestamp |-> 0]],
                    nextId |-> n + 1, solveCount |-> 0,
                    windows |-> [w \in 1..NumWindows |-> "loop"],
                    handed |-> <<>>, sawFull |-> FALSE]
  /\ SessionIdle /\ FleetIdle
  /\ RunnerIdle /\ ProxyManagerIdle /\ JarIdle /\ FcIdle
  /\ JiggerIdle /\ VariantIdle /\ QueueIdle /\ EngineIdle /\ RaceIdle
  /\ assign = NotInUse /\ monitor = NotInUse

HarvesterNext ==
  \/ \E w \in 1..NumWindows :
       \/ apiSolveLoop_enter(w)
       \/ apiSolveLoop_solved(w)
  \/ getToken
  \/ pruneExpired
  \/ CaptchaHarvester_stop
  \/ ClockTick

HarvesterSpec == HarvesterInit /\ [][HarvesterNext]_vars

\* C40: every banked token is handed out by getToken at most once, getToken
\* never returns a token older than TOKEN_MAX_AGE_MS, and the bank never
\* holds more than MAX_BANK_SIZE tokens, however the solver windows and the
\* getToken calls interleave.
C40_BankHandsOutOnceFreshAndBounded ==
  ~HarvesterIdle =>
    /\ \A i, j \in DOMAIN harvester.handed :
         i # j => harvester.handed[i].id # harvester.handed[j].id
    /\ \A i \in DOMAIN harvester.handed : harvester.handed[i].age <= TOKEN_MAX_AGE_MS
    /\ Len(harvester.tokenBank) <= MAX_BANK_SIZE
====
